---- MODULE Spec2Model ----
(***************************************************************************)
(* Decision governance service: the lifecycle store, the pipeline          *)
(* orchestrator (run_pipeline), the extractor's retry loop, and the SSE    *)
(* progress generator, as one state machine.                               *)
(*                                                                         *)
(* Scheduling.  run_pipeline, the SSE generator and the GET handler are    *)
(* coroutines of one asyncio event loop: a coroutine keeps the loop until  *)
(* it awaits something that really suspends.  In run_pipeline these are    *)
(* the two run_in_executor calls (extraction, deep reasoning); the awaits  *)
(* on InMemoryGraphRepository never suspend, its methods contain no        *)
(* suspending await.  `running` names the pipeline that holds the loop.    *)
(* The extractor and the deep reasoner run in executor threads and step    *)
(* independently of the loop.                                              *)
(***************************************************************************)
EXTENDS Integers, Sequences, FiniteSets, TLC

\* ---------------------------------------------------------------- values

\* Python None (values are records so that any two can be compared)
NULL == [kind |-> "none"]
\* Python {} : not None, but falsy
EMPTY == [kind |-> "empty_dict"]
\* a Python str
Str(text) == [kind |-> "str", text |-> text]
\* a non-empty dict or list produced by a stage
Obj(tag) == [kind |-> "obj", tag |-> tag]
\* Python truthiness of a stored value
Truthy(v) == v \notin {NULL, EMPTY}

\* DecisionExtractor(max_retries=2)
MaxRetries == 2

\* decision ids handed out by decision_store.create (uuid4, never reused)
DecisionIds == {"d1"}

\* no pipeline holds the event loop
Free == "free"

VARIABLES
    store,         \* decision_store._store: decision_id -> DecisionRecord
    ppc,           \* run_pipeline's position, per decision
    running,       \* the pipeline holding the event loop, or Free
    ext,           \* extractor.extract running in the executor, per decision
    rsn,           \* the deep-reasoner call of _run_o1_reasoning, per decision
    graph_ok,      \* per decision: "none" before the upsert, then "returned" / "raised"
    stages_done,   \* per decision: number of pipeline stages whose work has finished
    gen,           \* event_generator: position and locals, per decision
    events,        \* SSE events the generator has yielded, per decision
    disconnected,  \* request.is_disconnected() of the stream's client
    last_get,      \* what the latest GET /v1/decisions/{id} saw, per decision
    gov,           \* one governance evaluation: its inputs and what was computed
    nodes,         \* InMemoryGraphRepository._nodes: node id -> node type
    edges,         \* InMemoryGraphRepository._edges: list of edges
    ctx            \* what the latest graph call returned

\* the service: lifecycle store, pipelines, extractor, reasoner, streams
svars == <<store, ppc, running, ext, rsn, graph_ok, stages_done, gen, events,
           disconnected, last_get>>

\* the graph repository
gvars == <<nodes, edges, ctx>>

vars == <<store, ppc, running, ext, rsn, graph_ok, stages_done, gen, events,
          disconnected, last_get, gov, nodes, edges, ctx>>

\* ------------------------------------------------------- decision_store

\* the output fields of DecisionRecord
OutputFields == {"decision", "extraction_metadata", "governance", "derived_attributes",
                 "graph_payload", "reasoning", "decision_pack"}

\* DecisionRecord as decision_store.create builds it
NewRecord(use_o1_graph) ==
    [status |-> "pending", current_step |-> 0, use_o1_graph |-> use_o1_graph,
     decision |-> NULL, extraction_metadata |-> NULL, governance |-> NULL,
     derived_attributes |-> NULL, graph_payload |-> NULL, reasoning |-> NULL,
     decision_pack |-> NULL, error |-> NULL]

\* decision_store.create
create(s, d, use_o1_graph) ==
    [x \in DOMAIN s \cup {d} |-> IF x = d THEN NewRecord(use_o1_graph) ELSE s[x]]

\* faulty variant of update_status: the step is reset whenever the status is written
update_status_resets(s, d, status, step) ==
    IF d \notin DOMAIN s THEN s
    ELSE [s EXCEPT ![d].status = status, ![d].current_step = 0]

\* decision_store.update_status (every caller passes current_step)
update_status(s, d, status, step) ==
    IF d \notin DOMAIN s THEN s
    ELSE [s EXCEPT ![d].status = status, ![d].current_step = step]

\* faulty variant of store_results: the reasoning argument is not written
store_results_drops_reasoning(s, d, kw) ==
    IF d \notin DOMAIN s THEN s
    ELSE [s EXCEPT ![d] =
            [f \in DOMAIN s[d] |->
                IF f \in DOMAIN kw /\ f # "reasoning" /\ kw[f] # NULL
                THEN kw[f] ELSE s[d][f]]]

\* decision_store.store_results: kw is the record of keyword arguments given;
\* an argument that is None leaves the field alone
store_results(s, d, kw) ==
    IF d \notin DOMAIN s THEN s
    ELSE [s EXCEPT ![d] =
            [f \in DOMAIN s[d] |->
                IF f \in DOMAIN kw /\ kw[f] # NULL THEN kw[f] ELSE s[d][f]]]

\* faulty variant of store_error: the error text is dropped
store_error_drops(s, d, error) ==
    IF d \notin DOMAIN s THEN s
    ELSE [s EXCEPT ![d].status = "failed"]

\* decision_store.store_error
store_error(s, d, error) ==
    IF d \notin DOMAIN s THEN s
    ELSE [s EXCEPT ![d].status = "failed", ![d].error = error]

\* ------------------------------------------------------------ extractor

\* what one LLM call of an attempt leads to: the call raises, json.loads fails,
\* Decision(**parsed) fails validation, or the output parses and validates
LLMOutcomes == {"api_error", "bad_json", "invalid", "valid"}

\* validated Decision objects the LLM output can amount to (confidence in tenths)
LLMDecisions ==
    { [kind |-> "decision", statement |-> "stated", confidence10 |-> 9,
       goals |-> 1, kpis |-> 1, risks |-> 1, owners |-> 1],
      [kind |-> "decision", statement |-> "stated", confidence10 |-> 1,
       goals |-> 0, kpis |-> 0, risks |-> 0, owners |-> 0] }

\* DecisionExtractor._create_fallback_decision (list fields as their lengths)
create_fallback_decision ==
    [kind |-> "decision", statement |-> "extraction_failed", confidence10 |-> 1,
     goals |-> 0, kpis |-> 0, risks |-> 0, owners |-> 0]

\* the DecisionExtractionResponse of a successful attempt
SuccessResponse(decision, retry_count) ==
    [kind |-> "response", decision |-> decision,
     extraction_metadata |->
        [kind |-> "obj", retry_count |-> retry_count, success |-> TRUE,
         fallback_used |-> FALSE],
     governance_applied |-> TRUE, forced_review |-> FALSE,
     governance_status |-> "review_required"]

\* the DecisionExtractionResponse after all attempts failed
FallbackResponse(retry_count) ==
    [kind |-> "response", decision |-> create_fallback_decision,
     extraction_metadata |->
        [kind |-> "obj", retry_count |-> retry_count, success |-> FALSE,
         fallback_used |-> TRUE],
     governance_applied |-> TRUE, forced_review |-> TRUE,
     governance_status |-> "blocked"]

\* faulty variant of LastAttempt: one attempt too many (range(max_retries + 2))
LastAttemptOffByOne(attempt) == attempt >= MaxRetries + 1

\* `for attempt in range(self.max_retries + 1)`: is this the last iteration
LastAttempt(attempt) == attempt >= MaxRetries

\* extract before it is called
ExtIdle == [state |-> "idle", attempt |-> 0, calls |-> 0, failed |-> 0, response |-> NULL]

\* One iteration of extract's retry loop, in the executor thread: the LLM call,
\* json.loads, Decision(**parsed), then either the return of the success
\* response, or the except clause and the next iteration, or (after the last
\* iteration) the fallback response.
ExtractAttempt(d, outcome, decision) ==
    /\ ext[d].state = "running"
    /\ LET e == ext[d]
           retry_count == e.attempt
       IN ext' = [ext EXCEPT ![d] =
            IF outcome = "valid"
            THEN [e EXCEPT !.state = "returned", !.calls = @ + 1,
                           !.response = SuccessResponse(decision, retry_count)]
            ELSE IF LastAttempt(e.attempt)
            THEN [e EXCEPT !.state = "returned", !.calls = @ + 1, !.failed = @ + 1,
                           !.response = FallbackResponse(retry_count)]
            ELSE [e EXCEPT !.attempt = @ + 1, !.calls = @ + 1, !.failed = @ + 1]]
    /\ UNCHANGED <<store, ppc, running, rsn, graph_ok, stages_done, gen, events,
                   disconnected, last_get>>

\* ---------------------------------------------------------- run_pipeline

\* faulty variant of Suspends: the await on upsert_decision_graph gives up the loop
SuspendsAtUpsert(pc) ==
    pc \in {"none", "queued", "await_extract", "upsert", "await_reason", "done"}

\* positions of run_pipeline at which the coroutine does not hold the event loop:
\* not started, waiting on run_in_executor (extraction, deep reasoning), finished
Suspends(pc) == pc \in {"none", "queued", "await_extract", "await_reason", "done"}

\* pipeline d may take its next step: it resumes when the loop is free, or it
\* already holds the loop
Holds(d) == IF Suspends(ppc[d]) THEN running = Free ELSE running = d

\* pipeline d moves to position pc, keeping or giving up the loop
Goto(d, pc) ==
    /\ ppc' = [ppc EXCEPT ![d] = pc]
    /\ running' = IF Suspends(pc) THEN Free ELSE d

\* the reasoning dict _run_o1_reasoning returns
ReasoningResult(source, analysis_method) ==
    [kind |-> "obj", source |-> source, analysis_method |-> analysis_method,
     next_actions |-> <<>>]

\* the next_actions list of a deep-reasoner analysis that proposes some
O1NextActions == <<"o1_action">>

\* the reasoning dict with the next_actions format_graph_insights_for_pack copies
\* from the analysis
O1Reasoning(next_actions) ==
    [ReasoningResult("o1", "o1-reasoning") EXCEPT !.next_actions = next_actions]

RsnIdle == [state |-> "idle", result |-> NULL]

\* submit_decision: POST /v1/decisions creates the record and enqueues run_pipeline
SubmitDecision(d, use_o1_graph) ==
    /\ running = Free
    /\ d \notin DOMAIN store
    /\ store' = create(store, d, use_o1_graph)
    /\ ppc' = [ppc EXCEPT ![d] = "queued"]
    /\ UNCHANGED <<running, ext, rsn, graph_ok, stages_done, gen, events,
                   disconnected, last_get>>

\* run_pipeline starts: the record is found, update_status(processing, 0)
PStart(d) ==
    /\ ppc[d] = "queued" /\ Holds(d)
    /\ d \in DOMAIN store
    /\ store' = update_status(store, d, "processing", 0)
    /\ Goto(d, "extract")
    /\ UNCHANGED <<ext, rsn, graph_ok, stages_done, gen, events, disconnected, last_get>>

\* `await loop.run_in_executor(None, ...)`: the extraction is handed to the
\* executor; when run_in_executor itself raises (executor_up = FALSE: the default
\* executor has been shut down) the except clause stores the error
PExtract(d, executor_up) ==
    /\ ppc[d] = "extract" /\ Holds(d)
    /\ IF executor_up
       THEN /\ store' = store
            /\ ext' = [ext EXCEPT ![d].state = "running"]
            /\ Goto(d, "await_extract")
       ELSE /\ store' = store_error(store, d, Str("executor_error"))
            /\ ext' = ext
            /\ Goto(d, "done")
    /\ UNCHANGED <<rsn, graph_ok, stages_done, gen, events, disconnected, last_get>>

\* extraction returned: store_results(decision, extraction_metadata)
PExtracted(d) ==
    /\ ppc[d] = "await_extract" /\ Holds(d)
    /\ ext[d].state = "returned"
    /\ store' = store_results(store, d,
                    [decision |-> ext[d].response.decision,
                     extraction_metadata |-> ext[d].response.extraction_metadata])
    /\ stages_done' = [stages_done EXCEPT ![d] = 1]
    /\ Goto(d, "step1")
    /\ UNCHANGED <<ext, rsn, graph_ok, gen, events, disconnected, last_get>>

\* update_status(processing, current_step=1)
PStep1(d) ==
    /\ ppc[d] = "step1" /\ Holds(d)
    /\ store' = update_status(store, d, "processing", 1)
    /\ Goto(d, "governance")
    /\ UNCHANGED <<ext, rsn, graph_ok, stages_done, gen, events, disconnected, last_get>>

\* get_company_data, evaluate_governance, to_dict, pop("derived_attributes", {}),
\* store_results; both calls read the tenant's files, and when one raises the
\* except clause of run_pipeline stores the error
PGovernance(d, raises) ==
    /\ ppc[d] = "governance" /\ Holds(d)
    /\ IF raises
       THEN /\ store' = store_error(store, d, Str("governance_error"))
            /\ Goto(d, "done")
       ELSE /\ store' = store_results(store, d,
                    [governance |-> Obj("governance"), derived_attributes |-> EMPTY])
            /\ Goto(d, "upsert")
    /\ UNCHANGED <<ext, rsn, graph_ok, stages_done, gen, events, disconnected, last_get>>

\* faulty variant of upsert_except: the failure of the upsert is recorded as the run's
upsert_except_fails(s, d) == store_error(s, d, Str("graph_error"))

\* the except clause around the graph upsert: it only logs
upsert_except(s, d) == s

\* the try block around upsert_decision_graph: the graph payload is stored when
\* the upsert returns; when it raises the except clause runs
PUpsert(d, outcome) ==
    /\ ppc[d] = "upsert" /\ Holds(d)
    /\ store' = IF outcome = "returned"
                THEN store_results(store, d, [graph_payload |-> Obj("graph")])
                ELSE upsert_except(store, d)
    /\ graph_ok' = [graph_ok EXCEPT ![d] = outcome]
    /\ stages_done' = [stages_done EXCEPT ![d] = 2]
    /\ Goto(d, "step2")
    /\ UNCHANGED <<ext, rsn, gen, events, disconnected, last_get>>

\* faulty variant of PStep2: the step is written on every record of the store
PStep2Everywhere(d) ==
    /\ ppc[d] = "step2" /\ Holds(d)
    /\ store' = [x \in DOMAIN store |->
                    [store[x] EXCEPT !.status = "processing", !.current_step = 2]]
    /\ Goto(d, "reasoning")
    /\ UNCHANGED <<ext, rsn, graph_ok, stages_done, gen, events, disconnected, last_get>>

\* update_status(processing, current_step=2)
PStep2(d) ==
    /\ ppc[d] = "step2" /\ Holds(d)
    /\ store' = update_status(store, d, "processing", 2)
    /\ Goto(d, "reasoning")
    /\ UNCHANGED <<ext, rsn, graph_ok, stages_done, gen, events, disconnected, last_get>>

\* _run_o1_reasoning up to its first suspension: without use_o1_graph the stub is
\* returned at once; with it the reasoner call is handed to the executor
PReasoning(d) ==
    /\ ppc[d] = "reasoning" /\ Holds(d)
    /\ IF store[d].use_o1_graph
       THEN /\ rsn' = [rsn EXCEPT ![d].state = "running"]
            /\ Goto(d, "await_reason")
       ELSE /\ rsn' = [rsn EXCEPT ![d] =
                        [state |-> "returned",
                         result |-> ReasoningResult("deterministic", "none")]]
            /\ Goto(d, "store_reasoning")
    /\ UNCHANGED <<store, ext, graph_ok, stages_done, gen, events, disconnected, last_get>>

\* what the deep-reasoner call can do: return an analysis dict with or without
\* next_actions, raise, or return parsed JSON that is not a dict
ReasonerOutcomes == {"returned", "returned_no_actions", "raised", "not_a_dict"}

\* The deep-reasoner call in the executor thread ends.  It returns an analysis;
\* or it raises and analyze_decision_graph_with_o1 substitutes its fallback
\* insights; or what it returns has no .get, which raises out of
\* analyze_decision_graph_with_o1 into the except clause of _run_o1_reasoning.
ReasonerCall(d, outcome) ==
    /\ rsn[d].state = "running"
    /\ rsn' = [rsn EXCEPT ![d] =
                [state |-> "returned",
                 result |-> IF outcome = "returned" THEN O1Reasoning(O1NextActions)
                            ELSE IF outcome = "returned_no_actions" THEN O1Reasoning(<<>>)
                            ELSE IF outcome = "raised"
                            THEN ReasoningResult("o1", "deterministic")
                            ELSE ReasoningResult("deterministic_fallback", "none")]]
    /\ UNCHANGED <<store, ppc, running, ext, graph_ok, stages_done, gen, events,
                   disconnected, last_get>>

\* faulty variant of PReasoned: a reasoner that did not deliver aborts the run
PReasonedAborts(d) ==
    /\ ppc[d] = "await_reason" /\ Holds(d)
    /\ rsn[d].state = "returned"
    /\ IF rsn[d].result = ReasoningResult("o1", "o1-reasoning")
       THEN store' = store /\ Goto(d, "store_reasoning")
       ELSE store' = store_error(store, d, Str("reasoner_error")) /\ Goto(d, "done")
    /\ UNCHANGED <<ext, rsn, graph_ok, stages_done, gen, events, disconnected, last_get>>

\* run_pipeline resumes after the deep-reasoner call
PReasoned(d) ==
    /\ ppc[d] = "await_reason" /\ Holds(d)
    /\ rsn[d].state = "returned"
    /\ Goto(d, "store_reasoning")
    /\ UNCHANGED <<store, ext, rsn, graph_ok, stages_done, gen, events,
                   disconnected, last_get>>

\* store_results(reasoning=reasoning)
PStoreReasoning(d) ==
    /\ ppc[d] = "store_reasoning" /\ Holds(d)
    /\ store' = store_results(store, d, [reasoning |-> rsn[d].result])
    /\ stages_done' = [stages_done EXCEPT ![d] = 3]
    /\ Goto(d, "step3")
    /\ UNCHANGED <<ext, rsn, graph_ok, gen, events, disconnected, last_get>>

\* update_status(processing, current_step=3)
PStep3(d) ==
    /\ ppc[d] = "step3" /\ Holds(d)
    /\ store' = update_status(store, d, "processing", 3)
    /\ Goto(d, "pack")
    /\ UNCHANGED <<ext, rsn, graph_ok, stages_done, gen, events, disconnected, last_get>>

\* _generate_next_actions: the deterministic list
GeneratedNextActions == <<"generated_action">>

\* build_decision_pack "Generate recommended next actions": the reasoner's when
\* graph_insights is given, comes from o1-reasoning and has some, else generated
recommended_next_actions(graph_insights) ==
    LET o1_next_actions == IF graph_insights # NULL THEN graph_insights.next_actions
                           ELSE <<>>
        o1_was_used == IF graph_insights # NULL
                       THEN graph_insights.analysis_method = "o1-reasoning"
                       ELSE FALSE
    IN IF o1_was_used /\ o1_next_actions # <<>> THEN o1_next_actions
       ELSE GeneratedNextActions

\* build_decision_pack: the pack is assembled from the decision dict, the
\* governance dict and, when given, graph_insights
build_decision_pack(decision, governance, graph_insights) ==
    [kind |-> "obj", tag |-> "decision_pack", decision |-> decision,
     governance |-> governance,
     graph_analysis_enabled |-> graph_insights # NULL,
     recommended_next_actions |-> recommended_next_actions(graph_insights)]

\* faulty variant of PPack: the pack records whether the graph upsert went through
PPackReadsGraph(d) ==
    /\ ppc[d] = "pack" /\ Holds(d)
    /\ store' = store_results(store, d,
                    [decision_pack |->
                        build_decision_pack(store[d].decision,
                                            [kind |-> "obj", tag |-> graph_ok[d]], NULL)])
    /\ stages_done' = [stages_done EXCEPT ![d] = 4]
    /\ Goto(d, "step4")
    /\ UNCHANGED <<ext, rsn, graph_ok, gen, events, disconnected, last_get>>

\* build_decision_pack(decision=..., governance=..., company=...) and
\* store_results(decision_pack=...): graph_insights keeps its default, None
PPack(d) ==
    /\ ppc[d] = "pack" /\ Holds(d)
    /\ store' = store_results(store, d,
                    [decision_pack |->
                        build_decision_pack(store[d].decision, store[d].governance, NULL)])
    /\ stages_done' = [stages_done EXCEPT ![d] = 4]
    /\ Goto(d, "step4")
    /\ UNCHANGED <<ext, rsn, graph_ok, gen, events, disconnected, last_get>>

\* update_status(complete, current_step=4); run_pipeline returns
PStep4(d) ==
    /\ ppc[d] = "step4" /\ Holds(d)
    /\ store' = update_status(store, d, "complete", 4)
    /\ Goto(d, "done")
    /\ UNCHANGED <<ext, rsn, graph_ok, stages_done, gen, events, disconnected, last_get>>

\* ------------------------------------------------------- event_generator

StepEvent(n) == [event |-> "step", step |-> n]
CompleteEvent == [event |-> "complete", step |-> 0]
ErrorEvent == [event |-> "error", step |-> 0]

\* step_labels / step_messages: the steps that have an SSE step event
StepLabels == {1, 2, 3}

GenIdle == [pc |-> "none", last_step |-> 0, current_step |-> 0]

\* stream_decision_status: GET /v1/decisions/{id}/stream on an existing record
\* starts event_generator with last_step = 0
OpenStream(d) ==
    /\ running = Free
    /\ d \in DOMAIN store
    /\ gen[d].pc = "none"
    /\ gen' = [gen EXCEPT ![d].pc = "check"]
    /\ UNCHANGED <<store, ppc, running, ext, rsn, graph_ok, stages_done, events,
                   disconnected, last_get>>

\* faulty variant of Disconnect: the disconnect also cancels the decision's pipeline
DisconnectCancels(d) ==
    /\ gen[d].pc \notin {"none", "done"}
    /\ ~disconnected[d]
    /\ disconnected' = [disconnected EXCEPT ![d] = TRUE]
    /\ ppc' = [ppc EXCEPT ![d] = "done"]
    /\ running' = IF running = d THEN Free ELSE running
    /\ UNCHANGED <<store, ext, rsn, graph_ok, stages_done, gen, events, last_get>>

\* the client of the stream goes away
Disconnect(d) ==
    /\ gen[d].pc \notin {"none", "done"}
    /\ ~disconnected[d]
    /\ disconnected' = [disconnected EXCEPT ![d] = TRUE]
    /\ UNCHANGED <<store, ppc, running, ext, rsn, graph_ok, stages_done, gen, events,
                   last_get>>

\* top of `while True`: `if await request.is_disconnected(): break`
GenCheck(d) ==
    /\ running = Free
    /\ gen[d].pc = "check"
    /\ gen' = [gen EXCEPT ![d].pc = IF disconnected[d] THEN "done" ELSE "read"]
    /\ UNCHANGED <<store, ppc, running, ext, rsn, graph_ok, stages_done, events,
                   disconnected, last_get>>

\* faulty variant of TerminalEvent: a failed record is not a terminal state of the stream
TerminalEventOnlyComplete(status) ==
    IF status = "complete" THEN CompleteEvent ELSE NULL

\* "Check terminal states": the event that ends the stream when record.status
\* is complete or failed, None otherwise
TerminalEvent(status) ==
    IF status = "complete" THEN CompleteEvent
    ELSE IF status = "failed" THEN ErrorEvent
    ELSE NULL

\* faulty variant of GenContinue: no `break` after a terminal event
GenContinueNoBreak(d, last_step, current_step) ==
    IF last_step < current_step /\ last_step < 3
    THEN /\ gen' = [gen EXCEPT ![d] = [pc |-> "paced", last_step |-> last_step + 1,
                                        current_step |-> current_step]]
         /\ events' = [events EXCEPT ![d] =
                IF (last_step + 1) \in StepLabels
                THEN Append(@, StepEvent(last_step + 1)) ELSE @]
    ELSE IF TerminalEvent(store[d].status) # NULL /\ Len(events[d]) < 6
    THEN /\ gen' = [gen EXCEPT ![d] = [pc |-> "poll_sleep", last_step |-> last_step,
                                        current_step |-> current_step]]
         /\ events' = [events EXCEPT ![d] = Append(@, TerminalEvent(store[d].status))]
    ELSE /\ gen' = [gen EXCEPT ![d] = [pc |-> "poll_sleep", last_step |-> last_step,
                                        current_step |-> current_step]]
         /\ events' = events

\* The generator from the inner while loop's test to its next suspension, with
\* the locals last_step and current_step as given: either one more step event is
\* yielded followed by the pacing sleep, or the loop is left and record.status
\* decides between the terminal events and the poll sleep.
GenContinue(d, last_step, current_step) ==
    IF last_step < current_step /\ last_step < 3
    THEN /\ gen' = [gen EXCEPT ![d] = [pc |-> "paced", last_step |-> last_step + 1,
                                        current_step |-> current_step]]
         /\ events' = [events EXCEPT ![d] =
                IF (last_step + 1) \in StepLabels
                THEN Append(@, StepEvent(last_step + 1)) ELSE @]
    ELSE IF TerminalEvent(store[d].status) # NULL
    THEN /\ gen' = [gen EXCEPT ![d] = [pc |-> "done", last_step |-> last_step,
                                        current_step |-> current_step]]
         /\ events' = [events EXCEPT ![d] = Append(@, TerminalEvent(store[d].status))]
    ELSE /\ gen' = [gen EXCEPT ![d] = [pc |-> "poll_sleep", last_step |-> last_step,
                                        current_step |-> current_step]]
         /\ events' = events

\* after the disconnect check: decision_store.get, `current_step =
\* record.current_step`, then on into the inner loop
GenRead(d) ==
    /\ running = Free
    /\ gen[d].pc = "read"
    /\ IF d \notin DOMAIN store
       THEN /\ gen' = [gen EXCEPT ![d].pc = "done"]
            /\ events' = [events EXCEPT ![d] = Append(@, ErrorEvent)]
       ELSE GenContinue(d, gen[d].last_step, store[d].current_step)
    /\ UNCHANGED <<store, ppc, running, ext, rsn, graph_ok, stages_done,
                   disconnected, last_get>>

\* the pacing sleep after a step event ends: back to the inner loop's test, with
\* the current_step read before the sleep
GenPaced(d) ==
    /\ running = Free
    /\ gen[d].pc = "paced"
    /\ GenContinue(d, gen[d].last_step, gen[d].current_step)
    /\ UNCHANGED <<store, ppc, running, ext, rsn, graph_ok, stages_done,
                   disconnected, last_get>>

\* the poll interval ends: back to the top of `while True`
GenPoll(d) ==
    /\ running = Free
    /\ gen[d].pc = "poll_sleep"
    /\ gen' = [gen EXCEPT ![d].pc = "check"]
    /\ UNCHANGED <<store, ppc, running, ext, rsn, graph_ok, stages_done, events,
                   disconnected, last_get>>

\* ------------------------------------------------------------ get_decision

\* build_console_payload: a section of the payload is built only when the
\* record's field is truthy; the record's current_step is kept beside it
ConsolePayload(rec) ==
    [kind |-> "payload", status |-> rec.status, current_step |-> rec.current_step,
     sections |-> {f \in OutputFields : Truthy(rec[f])}]

\* GET /v1/decisions/{id} on an existing record
GetDecision(d) ==
    /\ running = Free
    /\ d \in DOMAIN store
    /\ last_get' = [last_get EXCEPT ![d] = ConsolePayload(store[d])]
    /\ UNCHANGED <<store, ppc, running, ext, rsn, graph_ok, stages_done, gen, events,
                   disconnected>>

\* ------------------------------------------------------------ specification

\* the service after startup: no decision submitted yet
ServiceInit ==
    /\ store = [d \in {} |-> NULL]
    /\ ppc = [d \in DecisionIds |-> "none"]
    /\ running = Free
    /\ ext = [d \in DecisionIds |-> ExtIdle]
    /\ rsn = [d \in DecisionIds |-> RsnIdle]
    /\ graph_ok = [d \in DecisionIds |-> "none"]
    /\ stages_done = [d \in DecisionIds |-> 0]
    /\ gen = [d \in DecisionIds |-> GenIdle]
    /\ events = [d \in DecisionIds |-> <<>>]
    /\ disconnected = [d \in DecisionIds |-> FALSE]
    /\ last_get = [d \in DecisionIds |-> NULL]

\* InMemoryGraphRepository.__init__
GraphInit ==
    /\ nodes = <<>>
    /\ edges = <<>>
    /\ ctx = NULL

Init ==
    /\ ServiceInit
    /\ GraphInit
    /\ gov = NULL

\* the steps run_pipeline takes on the event loop
PipelineStep(d) ==
    \/ PStart(d)
    \/ \E executor_up \in BOOLEAN : PExtract(d, executor_up)
    \/ PExtracted(d)
    \/ PStep1(d)
    \/ \E raises \in BOOLEAN : PGovernance(d, raises)
    \/ \E outcome \in {"returned", "raised"} : PUpsert(d, outcome)
    \/ PStep2(d)
    \/ PReasoning(d)
    \/ PReasoned(d)
    \/ PStoreReasoning(d)
    \/ PStep3(d)
    \/ PPack(d)
    \/ PStep4(d)

\* the steps event_generator takes on the event loop
GeneratorStep(d) ==
    \/ GenCheck(d)
    \/ GenRead(d)
    \/ GenPaced(d)
    \/ GenPoll(d)

\* the external calls made in executor threads return
ExecutorStep(d) ==
    \/ \E outcome \in LLMOutcomes, decision \in LLMDecisions :
            ExtractAttempt(d, outcome, decision)
    \/ \E outcome \in ReasonerOutcomes : ReasonerCall(d, outcome)

\* requests of clients
ClientStep(d) ==
    \/ \E use_o1_graph \in BOOLEAN : SubmitDecision(d, use_o1_graph)
    \/ OpenStream(d)
    \/ Disconnect(d)
    \/ GetDecision(d)

\* a step of the service for decision d
ServiceStep(d) ==
    \/ ClientStep(d)
    \/ PipelineStep(d)
    \/ ExecutorStep(d)
    \/ GeneratorStep(d)

Next ==
    /\ \E d \in DecisionIds : ServiceStep(d)
    /\ UNCHANGED <<gov, nodes, edges, ctx>>

Spec == Init /\ [][Next]_vars

\* The event loop runs every coroutine that is ready: a pipeline that can resume
\* does, and the generator's sleeps end.  Nothing makes the external calls in the
\* executor threads return.
FairSpec ==
    /\ Spec
    /\ \A d \in DecisionIds : WF_svars(PipelineStep(d)) /\ WF_svars(GeneratorStep(d))

\* FairSpec for runs in which the external calls do return
LiveSpec ==
    /\ FairSpec
    /\ \A d \in DecisionIds : WF_svars(ExecutorStep(d))

\* ------------------------------------------------------------------ C1

\* the stream of d ended with the complete event and its client never went away
StreamCompleted(d) ==
    /\ gen[d].pc = "done"
    /\ ~disconnected[d]
    /\ events[d] # <<>>
    /\ events[d][Len(events[d])] = CompleteEvent

\* C1: a stream whose client stays connected and which ends with `complete` has
\* emitted, before it, exactly step 1, step 2 and step 3, in that order and once
\* each.
C1_StepsBeforeComplete ==
    \A d \in DecisionIds :
        StreamCompleted(d) =>
            events[d] = <<StepEvent(1), StepEvent(2), StepEvent(3), CompleteEvent>>

\* ------------------------------------------------------------------ C3

\* the sections a GET may show at each value of current_step
AllowedSections(current_step) ==
    (IF current_step >= 1 THEN {"decision", "extraction_metadata"} ELSE {})
    \cup (IF current_step >= 2
          THEN {"governance", "derived_attributes", "graph_payload"} ELSE {})
    \cup (IF current_step >= 3 THEN {"reasoning"} ELSE {})
    \cup (IF current_step >= 4 THEN {"decision_pack"} ELSE {})

\* C3: a GET that observes current_step = k sees no output of a later stage:
\* decision and extraction_metadata are null at step 0, governance,
\* derived_attributes and graph_payload below step 2, reasoning below step 3 and
\* decision_pack below step 4.
C3_GetSeesNoLaterOutput ==
    \A d \in DecisionIds :
        last_get[d] # NULL =>
            last_get[d].sections \subseteq AllowedSections(last_get[d].current_step)

\* a GET answered while run_pipeline waits for the deep reasoner: step 2, with the
\* outputs of stages 1 and 2 and nothing of stage 3
C3_Witness ==
    \E d \in DecisionIds :
        /\ ppc[d] = "await_reason"
        /\ last_get[d] # NULL
        /\ last_get[d].current_step = 2
        /\ last_get[d].sections = {"decision", "extraction_metadata", "governance",
                                   "graph_payload"}

\* ------------------------------------------------------------------ C4

\* C4: in every state of a record the outputs of the completed stages are there:
\* decision and extraction_metadata from step 1 on, governance from step 2 on,
\* reasoning from step 3 on, and decision_pack once the status is complete.
C4_CompletedOutputsPresent ==
    \A d \in DOMAIN store :
        LET rec == store[d] IN
        /\ rec.current_step >= 1 => rec.decision # NULL /\ rec.extraction_metadata # NULL
        /\ rec.current_step >= 2 => rec.governance # NULL
        /\ rec.current_step >= 3 => rec.reasoning # NULL
        /\ rec.status = "complete" => rec.decision_pack # NULL

\* a complete record that carries every stage's output
C4_Witness ==
    \E d \in DOMAIN store :
        /\ store[d].status = "complete"
        /\ store[d].current_step = 4
        /\ \A f \in OutputFields \ {"graph_payload"} : store[d][f] # NULL

\* ------------------------------------------------------------------ C5

\* C5: a write to current_step never lowers it and never skips a value, the
\* values stay within 0..4, and a failed run has left current_step at the number
\* of the last stage that completed.
C5_StepsMonotone ==
    /\ [][\A d \in DOMAIN store :
            store'[d].current_step \in
                {store[d].current_step, store[d].current_step + 1}]_vars
    /\ [](\A d \in DOMAIN store :
            /\ store[d].current_step \in 0..4
            /\ store[d].status = "failed" => store[d].current_step = stages_done[d])

\* a run that failed after its first stage had completed
C5_Witness ==
    \E d \in DOMAIN store :
        /\ store[d].status = "failed"
        /\ store[d].current_step = 1
        /\ stages_done[d] = 1

\* ------------------------------------------------------------------ C6

\* the moves the lifecycle allows, a status staying as it is included
StatusMoves ==
    {<<"pending", "processing">>, <<"processing", "complete">>,
     <<"processing", "failed">>}
    \cup {<<st, st>> : st \in {"pending", "processing", "complete", "failed"}}

\* C6: the status moves only pending -> processing -> complete or processing ->
\* failed, complete and failed never change again, a complete record is at
\* step 4 and a failed record carries an error string.
C6_Lifecycle ==
    /\ [][\A d \in DOMAIN store :
            <<store[d].status, store'[d].status>> \in StatusMoves]_vars
    /\ [](\A d \in DOMAIN store :
            /\ store[d].status = "complete" => store[d].current_step = 4
            /\ store[d].status = "failed" => store[d].error.kind = "str")

\* a record on which run_pipeline has stored an error
C6_Witness ==
    \E d \in DOMAIN store :
        /\ store[d].status = "failed"
        /\ store[d].error = Str("governance_error")
        /\ ppc[d] = "done"

\* ------------------------------------------------------------------ C2

\* the pipeline run of d has ended
RunEnded(d) == d \in DOMAIN store /\ store[d].status \in {"complete", "failed"}

\* the stream of d has stopped after the terminal event that matches the record
StreamTerminated(d) ==
    /\ gen[d].pc = "done"
    /\ events[d] # <<>>
    /\ events[d][Len(events[d])] =
            IF store[d].status = "complete" THEN CompleteEvent ELSE ErrorEvent

\* C2: once the pipeline run of a decision has ended and a stream is open on it,
\* the stream emits the terminal event (complete for a complete record, error for
\* a failed one) unless its client goes away, and a stopped generator emits
\* nothing more.
C2_StreamTerminates ==
    /\ \A d \in DecisionIds :
            (RunEnded(d) /\ gen[d].pc # "none") ~> (disconnected[d] \/ StreamTerminated(d))
    /\ [][\A d \in DecisionIds :
            gen[d].pc = "done" => gen'[d] = gen[d] /\ events'[d] = events[d]]_vars

\* a stream on a failed run that stopped with the error event
C2_Witness ==
    \E d \in DecisionIds :
        /\ RunEnded(d) /\ store[d].status = "failed"
        /\ ~disconnected[d]
        /\ StreamTerminated(d)

\* ------------------------------------------------------------------ C7

\* what run_pipeline and the executor threads work on
PipelineState == <<store, ppc, running, ext, rsn, graph_ok, stages_done>>

\* C7: a disconnect, and every step the generator takes, leaves the pipeline's
\* state and the record as they are, and after a disconnect the pipeline still
\* runs to status complete or failed (the external calls returning).
C7_DisconnectEndsOnlyGenerator ==
    /\ [][(disconnected' # disconnected \/ gen' # gen) => PipelineState' = PipelineState]_vars
    /\ \A d \in DecisionIds : disconnected[d] ~> RunEnded(d)

\* a run that went on to complete after its stream's client had gone away, the
\* stream having ended without a terminal event
C7_Witness ==
    \E d \in DecisionIds :
        /\ disconnected[d]
        /\ gen[d].pc = "done"
        /\ \A i \in 1..Len(events[d]) : events[d][i].event = "step"
        /\ RunEnded(d) /\ store[d].status = "complete"

\* ------------------------------------------------------------------ C8

\* an external call of d's pipeline is outstanding
CallOutstanding(d) == ext[d].state = "running" \/ rsn[d].state = "running"

\* C8: when the extractor call or the deep-reasoner call never returns, the
\* record does not stay processing forever: it eventually reaches status failed.
C8_HungCallFails ==
    \A d \in DecisionIds :
        <>[]CallOutstanding(d) => <>(RunEnded(d) /\ store[d].status = "failed")

\* ------------------------------------------------------------------ C9

\* C9: when upsert_decision_graph has raised, no error is recorded and the run
\* does not fail; graph_payload stays null, current_step is set to 2, and the run
\* ends with status complete and governance, reasoning and decision_pack stored.
C9_UpsertFailureAbsorbed ==
    \A d \in DOMAIN store :
        graph_ok[d] = "raised" =>
            /\ store[d].graph_payload = NULL
            /\ store[d].error = NULL /\ store[d].status # "failed"
            /\ ppc[d] # "step2" => store[d].current_step >= 2
            /\ ppc[d] = "done" =>
                /\ store[d].status = "complete"
                /\ store[d].governance # NULL
                /\ store[d].reasoning # NULL
                /\ store[d].decision_pack # NULL

\* a run that ended complete although its graph upsert had raised
C9_Witness ==
    \E d \in DOMAIN store :
        /\ graph_ok[d] = "raised"
        /\ ppc[d] = "done"
        /\ store[d].status = "complete"
        /\ store[d].graph_payload = NULL

\* ----------------------------------------------------------------- C10

AfterReasoning == {"step3", "pack", "step4", "done"}

\* C11: without use_o1_graph the deep reasoner is never called; and whatever the
\* reasoner did, once _run_o1_reasoning has its result the record is not failed,
\* the result is stored as the reasoning, current_step goes on to 3 and the run
\* ends complete with the decision pack built.
C11_ReasonerNeverAborts ==
    \A d \in DOMAIN store :
        /\ ~store[d].use_o1_graph => rsn[d].state # "running"
        /\ rsn[d].state = "returned" =>
            /\ rsn[d].result.kind = "obj"
            /\ store[d].status # "failed" /\ store[d].error = NULL
            /\ ppc[d] \in AfterReasoning => store[d].reasoning = rsn[d].result
            /\ ppc[d] \in {"pack", "step4", "done"} => store[d].current_step >= 3
            /\ ppc[d] = "done" =>
                /\ store[d].status = "complete"
                /\ store[d].decision_pack # NULL

\* runs that ended complete after the reasoner raised
C11_Witness ==
    \E d \in DOMAIN store :
        /\ store[d].use_o1_graph
        /\ ppc[d] = "done" /\ store[d].status = "complete"
        /\ store[d].reasoning = ReasoningResult("o1", "deterministic")

\* =================================================================
\* governance.py: evaluation of one decision against a tenant's rules.
\* Scores are in tenths (7.0 is 70); every weight is a multiple of 0.5, so
\* round(x, 1) changes nothing.
\* =================================================================

\* the longest list of risks a decision of the model carries
MaxRisks == 3

\* Risk.severity is a free Optional[str]: the four known names, a known name in
\* another case, an unknown name, and None
Severities == {"critical", "high", "medium", "low", "HIGH", "severe", "None"}

\* str.lower() on the severities of the model
Lower(sev) == IF sev = "HIGH" THEN "high" ELSE sev

\* compute_risk_score: `(risk.severity or "medium").lower()`, then
\* severity_weights.get(severity, 1.0), in tenths
SeverityWeight(sev) ==
    LET severity == Lower(IF sev = "None" THEN "medium" ELSE sev)
    IN CASE severity = "critical" -> 80
         [] severity = "high" -> 30
         [] severity = "medium" -> 15
         [] severity = "low" -> 5
         [] OTHER -> 10

\* the loop `for risk in decision.risks: total_score += weight`
RECURSIVE TotalScore(_)
TotalScore(risks) ==
    IF risks = <<>> THEN 0
    ELSE SeverityWeight(Head(risks)) + TotalScore(Tail(risks))

Min(a, b) == IF a <= b THEN a ELSE b

\* faulty variant of Normalized: the cap at 10 is left out
NormalizedUncapped(total_score) == total_score

\* `normalized = min(total_score, 10.0)`
Normalized(total_score) == Min(total_score, 100)

\* compute_risk_score
compute_risk_score(decision) ==
    IF decision.has_risk_score THEN decision.risk_score
    ELSE IF decision.risks = <<>> THEN 0
    ELSE Normalized(TotalScore(decision.risks))

\* ---------------------------------------------------- select_approval_chain
\* A rule is a record: rule_id, active, triggers (what evaluate_company_rule
\* returns for this decision), type, severity, and of its consequence: action,
\* approver_roles / approver_ids (lists) and approver_role / approver_id
\* (single).  The empty string stands for a missing key or None.

\* a person of approval_hierarchy.personnel: id, role, level, reports_to

\* str.upper() on the role names of the model
Upper(role) == IF role = "cfo" THEN "CFO" ELSE role

\* `consequence.get("approver_roles") or [consequence.get("approver_role")]`
ApproverRoles(rule) ==
    IF rule.approver_roles # <<>> THEN rule.approver_roles ELSE <<rule.approver_role>>

\* `consequence.get("approver_ids") or [consequence.get("approver_id")]`
ApproverIds(rule) ==
    IF rule.approver_ids # <<>> THEN rule.approver_ids ELSE <<rule.approver_id>>

\* get_approver_level: the level of the first person with that id, 1 by default
RECURSIVE get_approver_level(_, _)
get_approver_level(approver_id, personnel) ==
    IF personnel = <<>> THEN 1
    ELSE IF Head(personnel).id = approver_id THEN Head(personnel).level
    ELSE get_approver_level(approver_id, Tail(personnel))

\* level_map.get(level, ApprovalLevel.TEAM_LEAD)
ApprovalLevel(level) ==
    CASE level = 1 -> "team_lead"
      [] level = 2 -> "department_head"
      [] level = 3 -> "vp"
      [] level = 4 -> "c_level"
      [] OTHER -> "team_lead"

\* faulty variant of ChainStep: the step does not record the rule it came from
ChainStepUnsourced(rule, role, approver_id, personnel) ==
    [level |-> ApprovalLevel(get_approver_level(approver_id, personnel)),
     role |-> role, required |-> TRUE, rationale |-> rule.rule_id,
     source_rule_id |-> "", rule_action |-> rule.action,
     approver_id |-> approver_id]

\* ApprovalChainStep as select_approval_chain builds it; approver_id is not a
\* field of the step: it records the id the step was appended for
ChainStep(rule, role, approver_id, personnel) ==
    [level |-> ApprovalLevel(get_approver_level(approver_id, personnel)),
     role |-> role, required |-> TRUE, rationale |-> rule.rule_id,
     source_rule_id |-> rule.rule_id, rule_action |-> rule.action,
     approver_id |-> approver_id]

\* faulty variant of NewApprover: the set of seen approvers is not consulted
NewApproverAlways(approver_id, approval_set) == approver_id # ""

\* `if approver_id and approver_id not in approval_set`
NewApprover(approver_id, approval_set) ==
    approver_id # "" /\ approver_id \notin approval_set

\* faulty variant of ZipLoop: a later rule naming a seen approver rewrites the step
RECURSIVE ZipLoopLastWins(_, _, _, _)
ZipLoopLastWins(rule, i, personnel, acc) ==
    LET roles == IF rule.approver_roles # <<>> THEN rule.approver_roles
                 ELSE <<rule.approver_role>>
        ids == IF rule.approver_ids # <<>> THEN rule.approver_ids
               ELSE <<rule.approver_id>>
        step == [level |-> "team_lead", role |-> roles[i], required |-> TRUE,
                 rationale |-> rule.rule_id, source_rule_id |-> rule.rule_id,
                 rule_action |-> rule.action, approver_id |-> ids[i]]
    IN IF i > (IF Len(roles) < Len(ids) THEN Len(roles) ELSE Len(ids)) THEN acc
       ELSE IF ids[i] = "" THEN ZipLoopLastWins(rule, i + 1, personnel, acc)
       ELSE IF ids[i] \in acc.approval_set
       THEN ZipLoopLastWins(rule, i + 1, personnel,
                [acc EXCEPT !.approval_steps =
                    [k \in 1..Len(@) |->
                        IF @[k].approver_id = step.approver_id THEN step ELSE @[k]]])
       ELSE ZipLoopLastWins(rule, i + 1, personnel,
                [acc EXCEPT !.approval_set = @ \cup {ids[i]},
                            !.approval_steps = Append(@, step)])

\* `for role, approver_id in zip(approver_roles, approver_ids)`, from pair i on;
\* acc holds triggered_rules, approval_steps and approval_set
RECURSIVE ZipLoop(_, _, _, _)
ZipLoop(rule, i, personnel, acc) ==
    LET roles == ApproverRoles(rule)
        ids == ApproverIds(rule)
    IN IF i > Min(Len(roles), Len(ids)) THEN acc
       ELSE IF NewApprover(ids[i], acc.approval_set)
       THEN ZipLoop(rule, i + 1, personnel,
                [acc EXCEPT !.approval_set = @ \cup {ids[i]},
                            !.approval_steps =
                                Append(@, ChainStep(rule, roles[i], ids[i], personnel))])
       ELSE ZipLoop(rule, i + 1, personnel, acc)

\* the entry a triggered rule gets in triggered_rules
TriggeredEntry(rule) ==
    [rule_id |-> rule.rule_id, name |-> rule.rule_id, rule_type |-> rule.type]

\* `for rule in rules`, from rule i on
RECURSIVE RuleLoop(_, _, _, _)
RuleLoop(rules, i, personnel, acc) ==
    IF i > Len(rules) THEN acc
    ELSE LET rule == rules[i] IN
         IF ~rule.active \/ ~rule.triggers THEN RuleLoop(rules, i + 1, personnel, acc)
         ELSE LET acc1 == [acc EXCEPT !.triggered_rules = Append(@, TriggeredEntry(rule))]
              IN IF rule.action \in {"require_approval", "require_review"}
                 THEN RuleLoop(rules, i + 1, personnel, ZipLoop(rule, 1, personnel, acc1))
                 ELSE RuleLoop(rules, i + 1, personnel, acc1)

\* select_approval_chain: (approval_steps, triggered_rules)
select_approval_chain(rules_data) ==
    RuleLoop(rules_data.governance_rules, 1, rules_data.personnel,
             [triggered_rules |-> <<>>, approval_steps |-> <<>>, approval_set |-> {}])

\* ------------------------------------------- infer_owner_from_approval_chain

\* nothing found yet: lowest_level = 999, lowest_approver_id = None
NoApprover == [level |-> 999, id |-> "", role |-> ""]

\* the loop `for person in personnel` for one step's role, from person j on
RECURSIVE PersonLoop(_, _, _, _)
PersonLoop(role, personnel, j, lowest) ==
    IF j > Len(personnel) THEN lowest
    ELSE LET person == personnel[j] IN
         IF Upper(person.role) = Upper(role) /\ person.level < lowest.level
         THEN PersonLoop(role, personnel, j + 1,
                    [level |-> person.level, id |-> person.id, role |-> person.role])
         ELSE PersonLoop(role, personnel, j + 1, lowest)

\* the loop `for step in approval_chain`, from step i on
RECURSIVE StepLoop(_, _, _, _)
StepLoop(approval_chain, personnel, i, lowest) ==
    IF i > Len(approval_chain) THEN lowest
    ELSE StepLoop(approval_chain, personnel, i + 1,
                  PersonLoop(approval_chain[i].role, personnel, 1, lowest))

\* `[p for p in personnel if p.get('reports_to') == lowest_approver_id]`
DirectReports(personnel, approver_id) ==
    SelectSeq(personnel, LAMBDA person : person.reports_to = approver_id)

\* infer_owner_from_approval_chain: the inferred owner's role, "" for None
infer_owner_from_approval_chain(approval_chain, personnel) ==
    IF approval_chain = <<>> THEN ""
    ELSE LET lowest == StepLoop(approval_chain, personnel, 1, NoApprover)
         IN IF lowest.id = "" THEN ""
            ELSE IF DirectReports(personnel, lowest.id) # <<>>
            THEN DirectReports(personnel, lowest.id)[1].role
            ELSE lowest.role

\* ------------------------------------------------------------ detect_flags

\* `rule.get('rule_type') or rule.get('type')` over triggered_rules
RuleTypes(triggered_rules) ==
    {triggered_rules[i].rule_type : i \in 1..Len(triggered_rules)}

\* the flag appended when cond holds
FlagIf(cond, flag) == IF cond THEN <<flag>> ELSE <<>>

\* `len(decision.kpis) > 5 or len(decision.goals) > 5`
TooManyObjectives(decision) == decision.kpis > 5 \/ decision.goals > 5

\* detect_flags: the list of flags, in the order they are appended
detect_flags(decision, computed_risk_score, triggered_rules, approval_chain, personnel) ==
    FlagIf(decision.owners = 0
           /\ infer_owner_from_approval_chain(approval_chain, personnel) = "",
           "MISSING_OWNER")
    \o FlagIf(decision.risks = <<>>, "MISSING_RISK_ASSESSMENT")
    \o FlagIf(computed_risk_score >= 70, "HIGH_RISK")
    \o FlagIf(decision.strategic_impact = "critical", "STRATEGIC_CRITICAL")
    \o FlagIf(TooManyObjectives(decision), "CRITICAL_CONFLICT")
    \o FlagIf("privacy" \in RuleTypes(triggered_rules), "PRIVACY_REVIEW_REQUIRED")
    \o FlagIf("financial" \in RuleTypes(triggered_rules), "FINANCIAL_THRESHOLD_EXCEEDED")
    \o FlagIf("strategic" \in RuleTypes(triggered_rules), "STRATEGIC_CRITICAL")
    \o FlagIf(triggered_rules = <<>>
              /\ (decision.goals > 0 \/ decision.kpis > 0 \/ decision.risks # <<>>)
              /\ decision.confidence10 > 3,
              "GOVERNANCE_COVERAGE_GAP")

\* ----------------------------------------------------- evaluate_governance

\* evaluate_governance: `requires_human_review = (...)`
requires_human_review(decision, flags, approval_chain, triggered_rules, score) ==
    \/ flags # <<>>
    \/ approval_chain # <<>>
    \/ RuleTypes(triggered_rules) \cap {"compliance", "privacy", "strategic", "financial"} # {}
    \/ score >= 70
    \/ decision.strategic_impact \in {"high", "critical"}
    \/ decision.confidence10 < 7

\* evaluate_governance with use_o1 = False: the GovernanceResult
evaluate_governance(decision, rules_data) ==
    LET computed_risk_score == compute_risk_score(decision)
        selected == select_approval_chain(rules_data)
        flags == detect_flags(decision, computed_risk_score, selected.triggered_rules,
                              selected.approval_steps, rules_data.personnel)
    IN [kind |-> "governance",
        approval_chain |-> selected.approval_steps,
        flags |-> flags,
        requires_human_review |->
            requires_human_review(decision, flags, selected.approval_steps,
                                  selected.triggered_rules, computed_risk_score),
        triggered_rules |-> selected.triggered_rules,
        computed_risk_score |-> computed_risk_score]

\* ------------------------------- decision_pack._determine_risk_and_status

\* `"CRITICAL" in flag` on the flags governance emits
ContainsCritical(flag) == flag \in {"CRITICAL_CONFLICT", "STRATEGIC_CRITICAL"}

\* _determine_risk_and_status: (risk_level, governance_status)
determine_risk_and_status(flags, review, computed_risk_score) ==
    IF \E i \in 1..Len(flags) : ContainsCritical(flags[i])
    THEN [risk_level |-> "high", governance_status |-> "blocked"]
    ELSE IF computed_risk_score >= 70
    THEN [risk_level |-> "high", governance_status |-> "needs_review"]
    ELSE IF review \/ Len(flags) > 0 \/ computed_risk_score >= 40
    THEN [risk_level |-> "medium", governance_status |-> "needs_review"]
    ELSE [risk_level |-> "low", governance_status |-> "compliant"]

\* ------------------------------------------- normalizers._normalize_rules

\* the NormalizedRule built for a rule (its id and status)
NormalizedRule(rule_id, status) == [rule_id |-> rule_id, status |-> status]

\* company_service.get_governance_rules: the tenant's governance_rules list
CompanyRules(rules_data) == rules_data.governance_rules

\* _normalize_rules: (normalized_triggered, normalized_all)
normalize_rules(triggered_rules, rules_data) ==
    LET triggered_ids == {triggered_rules[i].rule_id : i \in 1..Len(triggered_rules)}
        normalized_triggered ==
            [i \in 1..Len(triggered_rules) |->
                NormalizedRule(triggered_rules[i].rule_id, "TRIGGERED")]
        passed == SelectSeq(CompanyRules(rules_data),
                            LAMBDA rule : rule.rule_id \notin triggered_ids)
    IN [triggered_rules |-> normalized_triggered,
        all_rules |-> normalized_triggered
                      \o [i \in 1..Len(passed) |-> NormalizedRule(passed[i].rule_id, "PASSED")]]

\* --------------------------------- normalizers.build_console_payload: status

\* GovernanceResult.to_dict: the keys of the governance dict kept on the record
GovDictKeys ==
    {"approval_chain", "flags", "requires_human_review", "triggered_rules",
     "computed_risk_score"}

\* `gov.get(key, default)` on that dict
GovDictGet(result, key, default) ==
    IF key \in GovDictKeys THEN result[key] ELSE default

\* "Map governance status": blocked and compliant are kept, all else is
\* review_required
console_governance_status(status) ==
    IF status = "blocked" THEN "blocked"
    ELSE IF status = "compliant" THEN "compliant"
    ELSE "review_required"

\* ------------------------------------------- inputs of a governance evaluation

\* the most rules a tenant of the model has
MaxRules == 2

\* a Decision with nothing stated but an owner and one low risk
PlainDecision ==
    [owners |-> 1, risks |-> <<"low">>, has_risk_score |-> FALSE, risk_score |-> 0,
     kpis |-> 0, goals |-> 0, strategic_impact |-> "none", confidence10 |-> 9]

\* lists of at most n risk severities
RiskLists(n) == UNION {[1..k -> Severities] : k \in 0..n}

\* decisions that differ in their risks and in the risk_score they carry
\* (Decision.risk_score is validated to lie in [0, 10])
RiskDecisions ==
    {[PlainDecision EXCEPT !.risks = risks, !.has_risk_score = has, !.risk_score = score] :
        risks \in RiskLists(MaxRisks),
        has \in BOOLEAN, score \in {0, 35, 100}}

\* decisions that differ in what detect_flags and the review rule look at
FlagDecisions ==
    {[PlainDecision EXCEPT !.owners = owners, !.risks = risks, !.kpis = kpis,
                           !.goals = goals, !.strategic_impact = impact,
                           !.confidence10 = confidence10] :
        owners \in {0, 1},
        risks \in {<<>>, <<"low">>, <<"high", "medium">>, <<"critical">>},
        kpis \in {0, 5, 6}, goals \in {0, 5, 6},
        impact \in {"none", "high", "critical"},
        confidence10 \in {2, 5, 9}}

\* consequences a rule of the model can have
Consequences ==
    { [action |-> "require_approval", approver_roles |-> <<"CFO">>,
       approver_ids |-> <<"u1">>, approver_role |-> "", approver_id |-> ""],
      [action |-> "require_review", approver_roles |-> <<>>,
       approver_ids |-> <<>>, approver_role |-> "cfo", approver_id |-> "u1"],
      [action |-> "require_approval", approver_roles |-> <<"CFO", "CTO">>,
       approver_ids |-> <<"u1", "u2">>, approver_role |-> "", approver_id |-> ""],
      [action |-> "require_approval", approver_roles |-> <<"AUDITOR">>,
       approver_ids |-> <<"u3">>, approver_role |-> "", approver_id |-> ""],
      [action |-> "require_goal_mapping", approver_roles |-> <<>>,
       approver_ids |-> <<>>, approver_role |-> "", approver_id |-> ""] }

\* a rule of governance_rules
Rule(rule_id, active, triggers, type, severity, c) ==
    [rule_id |-> rule_id, active |-> active, triggers |-> triggers, type |-> type,
     severity |-> severity, action |-> c.action, approver_roles |-> c.approver_roles,
     approver_ids |-> c.approver_ids, approver_role |-> c.approver_role,
     approver_id |-> c.approver_id]

RuleIds == <<"R1", "R2", "R3">>

\* the rules a tenant can have at place i of governance_rules
RulesAt(i) ==
    {Rule(RuleIds[i], active, triggers, "financial", "medium", c) :
        active \in BOOLEAN, triggers \in BOOLEAN, c \in Consequences}

\* approval_hierarchy.personnel of the tenants of the model
Personnels ==
    { <<>>,
      << [id |-> "u1", role |-> "CFO", level |-> 4, reports_to |-> ""],
         [id |-> "u2", role |-> "CTO", level |-> 3, reports_to |-> ""],
         [id |-> "u4", role |-> "FIN_LEAD", level |-> 2, reports_to |-> "u1"] >>,
      << [id |-> "u1", role |-> "CFO", level |-> 4, reports_to |-> ""] >> }

\* tenants with MaxRules rules each, for the approval chain
ChainTenants ==
    {[governance_rules |-> rules, personnel |-> personnel] :
        rules \in {rs \in [1..MaxRules -> UNION {RulesAt(i) : i \in 1..MaxRules}] :
                        \A i \in 1..MaxRules : rs[i] \in RulesAt(i)},
        personnel \in Personnels}

\* tenants with one rule, for the flags
FlagTenants ==
    {[governance_rules |-> <<Rule("R1", TRUE, triggers, type, severity, c)>>,
      personnel |-> <<>>] :
        triggers \in BOOLEAN, type \in {"operational", "privacy", "strategic"},
        severity \in {"medium", "critical"},
        c \in {c \in Consequences : c.approver_ids \in {<<>>, <<"u1">>}}}

\* a tenant without rules
NoRulesTenant == [governance_rules |-> <<>>, personnel |-> <<>>]

\* the (decision, rules_data) pairs evaluated
GovInputs ==
    ({[PlainDecision EXCEPT !.owners = owners] : owners \in {0, 1}} \X ChainTenants)
    \cup (FlagDecisions \X FlagTenants)
    \cup (RiskDecisions \X {NoRulesTenant})

\* ---------------------------------------------- governance specification

\* evaluate_governance(decision, company_id=...) in run_pipeline / extract
EvaluateGovernance ==
    /\ gov.result = NULL
    /\ gov' = [gov EXCEPT !.result = evaluate_governance(gov.decision, gov.rules_data)]
    /\ UNCHANGED <<svars, gvars>>

\* build_decision_pack: _determine_risk_and_status on the governance dict
DetermineStatus ==
    /\ gov.result # NULL /\ gov.pack = NULL
    /\ gov' = [gov EXCEPT !.pack =
                determine_risk_and_status(
                    [i \in 1..Len(gov.result.flags) |-> gov.result.flags[i]],
                    gov.result.requires_human_review,
                    gov.result.computed_risk_score)]
    /\ UNCHANGED <<svars, gvars>>

\* build_console_payload: the governance section built from the governance dict:
\* _normalize_rules and the status mapping
NormalizeRules ==
    /\ gov.result # NULL /\ gov.normalized = NULL
    /\ gov' = [gov EXCEPT !.normalized =
                [triggered_rules |->
                    normalize_rules(gov.result.triggered_rules, gov.rules_data).triggered_rules,
                 all_rules |->
                    normalize_rules(gov.result.triggered_rules, gov.rules_data).all_rules,
                 status |->
                    console_governance_status(
                        GovDictGet(gov.result, "governance_status", "review_required"))]]
    /\ UNCHANGED <<svars, gvars>>

GovInit ==
    /\ ServiceInit
    /\ GraphInit
    /\ \E input \in GovInputs :
        gov = [decision |-> input[1], rules_data |-> input[2],
               result |-> NULL, pack |-> NULL, normalized |-> NULL]

GovNext ==
    \/ EvaluateGovernance
    \/ DetermineStatus
    \/ NormalizeRules

GovSpec == GovInit /\ [][GovNext]_vars

\* ----------------------------------------------------------------- C12

\* the rules of the evaluated tenant, and the chain and flags computed
GovRules == gov.rules_data.governance_rules
GovChain == gov.result.approval_chain
GovFlags == {gov.result.flags[i] : i \in 1..Len(gov.result.flags)}

\* rule i is active, triggered and asks for an approval or a review
GatedRule(i) ==
    /\ GovRules[i].active /\ GovRules[i].triggers
    /\ GovRules[i].action \in {"require_approval", "require_review"}

\* the approver ids rule i names (paired with a role, and not empty)
NamedApprovers(i) ==
    {ApproverIds(GovRules[i])[k] :
        k \in 1..Min(Len(ApproverIds(GovRules[i])), Len(ApproverRoles(GovRules[i])))} \ {""}

C13_UniqueApprovers ==
    gov # NULL /\ gov.result # NULL =>
        \A k, l \in 1..Len(GovChain) :
            GovChain[k].approver_id = GovChain[l].approver_id => k = l

\* a chain of two steps for two approvers, one of them named by both rules
C13_Witness ==
    /\ gov # NULL /\ gov.result # NULL
    /\ Len(GovRules) = 2 /\ GatedRule(1) /\ GatedRule(2)
    /\ NamedApprovers(1) = {"u1"} /\ NamedApprovers(2) = {"u1", "u2"}
    /\ Len(GovChain) = 2

\* ----------------------------------------------------------------- C14

\* C14: for a decision without owners MISSING_OWNER is emitted exactly when the
\* approval chain is empty, and a non-empty chain yields an inferred owner.
C14_MissingOwnerIffNoChain ==
    gov # NULL /\ gov.result # NULL /\ gov.decision.owners = 0 =>
        /\ "MISSING_OWNER" \in GovFlags <=> GovChain = <<>>
        /\ GovChain # <<>> =>
                infer_owner_from_approval_chain(GovChain, gov.rules_data.personnel) # ""

\* ----------------------------------------------------------------- C15

\* C15: the status is blocked if a flag contains CRITICAL; otherwise it is the
\* review status exactly when the chain or the flags are non-empty or the risk
\* score is at least 4.0; otherwise it is compliant.
C15_StatusRule ==
    gov # NULL /\ gov.pack # NULL =>
        gov.pack.governance_status =
            IF \E f \in GovFlags : ContainsCritical(f) THEN "blocked"
            ELSE IF GovChain # <<>> \/ GovFlags # {} \/ gov.result.computed_risk_score >= 40
            THEN "needs_review"
            ELSE "compliant"

\* ----------------------------------------------------------------- C16

\* C16: CRITICAL_CONFLICT is among the flags exactly when a triggered rule has
\* critical severity or the decision has more than 5 KPIs or more than 5 goals.
C16_CriticalConflict ==
    gov # NULL /\ gov.result # NULL =>
        ("CRITICAL_CONFLICT" \in GovFlags <=>
            \/ \E i \in 1..Len(GovRules) :
                    /\ GovRules[i].active /\ GovRules[i].triggers
                    /\ GovRules[i].severity = "critical"
            \/ gov.decision.kpis > 5
            \/ gov.decision.goals > 5)

\* ----------------------------------------------------------------- C17

\* the weights the claim names, in tenths
NamedWeight(sev) ==
    CASE sev = "critical" -> 80 [] sev = "high" -> 30 [] sev = "medium" -> 15
      [] sev = "low" -> 5

RECURSIVE NamedSum(_)
NamedSum(risks) ==
    IF risks = <<>> THEN 0 ELSE NamedWeight(Head(risks)) + NamedSum(Tail(risks))

\* C17: the computed risk score is the decision's own risk_score when it carries
\* one; otherwise, for risks of the four named severities, it is the sum of their
\* weights (8, 3, 1.5, 0.5) clamped to 10.0; in every case it lies in [0, 10].
C17_RiskScore ==
    gov # NULL /\ gov.result # NULL =>
        LET decision == gov.decision
            score == gov.result.computed_risk_score
        IN /\ score \in 0..100
           /\ decision.has_risk_score => score = decision.risk_score
           /\ (~decision.has_risk_score
               /\ \A i \in 1..Len(decision.risks) :
                    decision.risks[i] \in {"critical", "high", "medium", "low"}) =>
                 score = (IF NamedSum(decision.risks) > 100 THEN 100
                          ELSE NamedSum(decision.risks))

\* two critical risks and no risk_score of its own: 16 is clamped to 10.0
C17_Witness ==
    /\ gov # NULL /\ gov.result # NULL
    /\ ~gov.decision.has_risk_score
    /\ gov.decision.risks = <<"critical", "critical">>
    /\ gov.result.computed_risk_score = 100

\* ----------------------------------------------------------------- C18

\* C18: the rule ids in all_rules are exactly the ids of the tenant's active
\* rules, each once, TRIGGERED when the rule is in triggered_rules and PASSED
\* otherwise; an inactive rule never appears.
C18_AllRulesPartition ==
    gov # NULL /\ gov.normalized # NULL =>
        LET all_rules == gov.normalized.all_rules
            triggered_ids == {gov.result.triggered_rules[i].rule_id :
                                i \in 1..Len(gov.result.triggered_rules)}
        IN /\ {all_rules[k].rule_id : k \in 1..Len(all_rules)} =
                    {GovRules[i].rule_id : i \in {j \in 1..Len(GovRules) : GovRules[j].active}}
           /\ \A k, l \in 1..Len(all_rules) :
                    all_rules[k].rule_id = all_rules[l].rule_id => k = l
           /\ \A k \in 1..Len(all_rules) :
                    all_rules[k].status =
                        IF all_rules[k].rule_id \in triggered_ids THEN "TRIGGERED" ELSE "PASSED"

\* =====================================================================
\* graph_repository.py : InMemoryGraphRepository
\* =====================================================================

\* bounds of the graph exploration
MaxEdges == 3
MaxDepth == 2

GraphDecisionIds == {"d1", "d2"}

\* node ids; the code builds them by string formatting
\*   decision_id, f"{decision_id}_owner_{idx}", f"{decision_id}_risk_{idx}",
\*   f"policy_{rule_id}"
ActionId(decision_id) == [scope |-> decision_id, part |-> "", idx |-> 0]
OwnerId(decision_id, idx) == [scope |-> decision_id, part |-> "owner", idx |-> idx]
RiskId(decision_id, idx) == [scope |-> decision_id, part |-> "risk", idx |-> idx]
PolicyId(rule_id) == [scope |-> "policy", part |-> rule_id, idx |-> 0]

\* graph_ontology.NodeType
NodeType == {"Actor", "Action", "Policy", "Risk", "Resource"}

Node(id, type) == [id |-> id, type |-> type]
Edge(from_node, to_node) == [from_node |-> from_node, to_node |-> to_node]

\* the keys of self._nodes, a dict held as its entries in insertion order
NodeIds(ns) == {ns[i].id : i \in 1..Len(ns)}

NodeOf(ns, id) == ns[CHOOSE i \in 1..Len(ns) : ns[i].id = id]

\* add_node: raises ValueError (ok = FALSE) when the id is already a key
add_node(ns, node) ==
    IF node.id \in NodeIds(ns)
    THEN [ok |-> FALSE, nodes |-> ns]
    ELSE [ok |-> TRUE, nodes |-> Append(ns, node)]

\* add_edge without its endpoint tests
add_edge_no_check(ns, es, edge) == [ok |-> TRUE, edges |-> Append(es, edge)]

\* add_edge: raises ValueError when an endpoint is not a key of self._nodes
add_edge(ns, es, edge) ==
    IF edge.from_node \notin NodeIds(ns) \/ edge.to_node \notin NodeIds(ns)
    THEN [ok |-> FALSE, edges |-> es]
    ELSE [ok |-> TRUE, edges |-> Append(es, edge)]

\* clear: both collections are emptied
clear(ns, es) == [nodes |-> <<>>, edges |-> <<>>]

\* ---- upsert_decision_graph: the calls it makes, in order ----
NoNode == Node(ActionId(""), "Action")
NoEdge == Edge(ActionId(""), ActionId(""))
OpAddNode(node) == [op |-> "add_node", node |-> node, edge |-> NoEdge]
OpAddIfAbsent(node) == [op |-> "add_if_absent", node |-> node, edge |-> NoEdge]
OpAddEdge(edge) == [op |-> "add_edge", node |-> NoNode, edge |-> edge]
\* NodeType.GOAL, KPI, COST, REGION, DATA_TYPE and APPROVER are not members of
\* graph_ontology.NodeType: building such a node raises AttributeError
OpRaise == [op |-> "raise", node |-> NoNode, edge |-> NoEdge]

\* step 2: for idx, owner in enumerate(owners)
RECURSIVE OwnerOps(_, _, _)
OwnerOps(decision_id, n, idx) ==
    IF idx >= n THEN <<>>
    ELSE << OpAddNode(Node(OwnerId(decision_id, idx), "Actor")),
            OpAddEdge(Edge(OwnerId(decision_id, idx), ActionId(decision_id))) >>
         \o OwnerOps(decision_id, n, idx + 1)

\* step 8: for idx, risk in enumerate(risks)
RECURSIVE RiskOps(_, _, _)
RiskOps(decision_id, n, idx) ==
    IF idx >= n THEN <<>>
    ELSE << OpAddNode(Node(RiskId(decision_id, idx), "Risk")),
            OpAddEdge(Edge(ActionId(decision_id), RiskId(decision_id, idx))) >>
         \o RiskOps(decision_id, n, idx + 1)

\* step 10: for rule in triggered_rules
RECURSIVE PolicyOps(_, _)
PolicyOps(decision_id, rule_ids) ==
    IF rule_ids = <<>> THEN <<>>
    ELSE << OpAddIfAbsent(Node(PolicyId(Head(rule_ids)), "Policy")),
            OpAddEdge(Edge(ActionId(decision_id), PolicyId(Head(rule_ids)))) >>
         \o PolicyOps(decision_id, Tail(rule_ids))

RaiseIf(cond) == IF cond THEN <<OpRaise>> ELSE <<>>

\* decision: owners, goals, risks are list lengths; extras stands for kpis, cost,
\* target_market or uses_pii being present (steps 4 to 7)
UpsertOps(decision_id, decision, governance) ==
    <<OpAddNode(Node(ActionId(decision_id), "Action"))>>
    \o OwnerOps(decision_id, decision.owners, 0)
    \o RaiseIf(decision.goals > 0)
    \o RaiseIf(decision.extras)
    \o RiskOps(decision_id, decision.risks, 0)
    \o RaiseIf(governance.approval_chain > 0)
    \o PolicyOps(decision_id, governance.triggered_rules)

\* runs the calls until one raises; what was stored before stays stored. g holds
\* the local lists `nodes` and `edges` that become the returned DecisionGraph: a
\* node is appended to it only when this call created it, an edge always
RECURSIVE RunOps(_, _, _, _)
RunOps(ops, ns, es, g) ==
    IF ops = <<>> THEN [ok |-> TRUE, nodes |-> ns, edges |-> es, graph |-> g]
    ELSE LET o == Head(ops)
             raised == [ok |-> FALSE, nodes |-> ns, edges |-> es, graph |-> g]
         IN
         CASE o.op = "raise" -> raised
           [] o.op = "add_node" ->
                LET r == add_node(ns, o.node) IN
                IF r.ok
                THEN RunOps(Tail(ops), r.nodes, es, [g EXCEPT !.nodes = Append(@, o.node)])
                ELSE raised
           [] o.op = "add_if_absent" ->
                IF o.node.id \in NodeIds(ns) THEN RunOps(Tail(ops), ns, es, g)
                ELSE RunOps(Tail(ops), add_node(ns, o.node).nodes, es,
                            [g EXCEPT !.nodes = Append(@, o.node)])
           [] o.op = "add_edge" ->
                LET r == add_edge(ns, es, o.edge) IN
                IF r.ok
                THEN RunOps(Tail(ops), ns, r.edges, [g EXCEPT !.edges = Append(@, o.edge)])
                ELSE raised

\* ok = FALSE: the call raised and returned nothing; otherwise graph is the
\* DecisionGraph it returned
upsert_decision_graph(ns, es, decision_id, decision, governance) ==
    RunOps(UpsertOps(decision_id, decision, governance), ns, es,
           [nodes |-> <<>>, edges |-> <<>>])

\* ---- get_governance_context ----

\* the inner loop over self._edges for one node_id
RECURSIVE ScanEdges(_, _, _)
ScanEdges(es, node_id, st) ==
    IF es = <<>> THEN st
    ELSE LET edge == Head(es)
             out == edge.from_node = node_id /\ edge.to_node \notin st.visited_nodes
             st1 == IF out
                    THEN [st EXCEPT !.next_level = @ \cup {edge.to_node},
                                    !.visited_edges = Append(@, edge)]
                    ELSE st
             inc == edge.to_node = node_id /\ edge.from_node \notin st1.visited_nodes
             st2 == IF inc
                    THEN [st1 EXCEPT !.next_level = @ \cup {edge.from_node},
                                     !.visited_edges = Append(@, edge)]
                    ELSE st1
         IN ScanEdges(Tail(es), node_id, st2)

\* for node_id in current_level: a set, iterated in an order the code does not
\* fix; the result is the set of states over all orders
RECURSIVE LevelLoop(_, _, _)
LevelLoop(es, todo, st) ==
    IF todo = {} THEN {st}
    ELSE UNION { LevelLoop(es, todo \ {node_id},
                           ScanEdges(es, node_id,
                                     [st EXCEPT !.visited_nodes = @ \cup {node_id}]))
                 : node_id \in todo }

\* for _ in range(depth), with the break on an empty level
RECURSIVE DepthLoop(_, _, _, _)
DepthLoop(es, rounds, current_level, st) ==
    IF rounds = 0 THEN {st}
    ELSE UNION { IF r.next_level = {} THEN {r}
                 ELSE DepthLoop(es, rounds - 1, r.next_level, r)
                 : r \in LevelLoop(es, current_level, [st EXCEPT !.next_level = {}]) }

OfType(ns, ids, type) == {id \in ids : NodeOf(ns, id).type = type}

\* the set of dicts the call can return
get_governance_context(ns, es, decision_id, depth) ==
    IF decision_id \notin NodeIds(ns)
    THEN {[kind |-> "context", found |-> FALSE, decision |-> decision_id,
           actors |-> {}, policies |-> {}, risks |-> {}, edges |-> <<>>,
           node_count |-> 0]}
    ELSE { [kind |-> "context", found |-> TRUE, decision |-> decision_id,
            actors |-> OfType(ns, r.visited_nodes, "Actor"),
            policies |-> OfType(ns, r.visited_nodes, "Policy"),
            risks |-> OfType(ns, r.visited_nodes, "Risk"),
            edges |-> r.visited_edges,
            node_count |-> Cardinality(r.visited_nodes)]
           : r \in DepthLoop(es, depth, {decision_id},
                             [visited_nodes |-> {}, next_level |-> {},
                              visited_edges |-> <<>>]) }

\* ---- callers' inputs ----
GraphDecision(owners, goals, extras, risks) ==
    [owners |-> owners, goals |-> goals, extras |-> extras, risks |-> risks]

GraphDecisions ==
    { GraphDecision(0, 0, FALSE, 0), GraphDecision(0, 0, FALSE, 1),
      GraphDecision(1, 0, FALSE, 1), GraphDecision(1, 1, FALSE, 1),
      GraphDecision(1, 0, TRUE, 1) }

GraphGovernances ==
    [approval_chain : 0..1, triggered_rules : {<<>>, <<"R1">>}]

\* nodes and edges handed to add_node / add_edge directly
DirectNodes ==
    { Node(ActionId("d2"), "Action"), Node(RiskId("d1", 0), "Resource"),
      Node(PolicyId("R1"), "Policy") }

DirectEdges ==
    { Edge(ActionId("d1"), PolicyId("R1")), Edge(PolicyId("R1"), ActionId("d2")),
      Edge(ActionId("d2"), OwnerId("d1", 0)) }

\* what a write left its caller with: it returned (ok) or it raised
WriteResult(op, ok) == [kind |-> "write", op |-> op, ok |-> ok]

\* ---- actions: one call each; ctx is the outcome of the last call ----
AddNode ==
    \E node \in DirectNodes :
        /\ nodes' = add_node(nodes, node).nodes
        /\ ctx' = WriteResult("add_node", add_node(nodes, node).ok)
        /\ UNCHANGED <<edges, svars, gov>>

AddEdge ==
    \E edge \in DirectEdges :
        /\ Len(edges) < MaxEdges
        /\ edges' = add_edge(nodes, edges, edge).edges
        /\ ctx' = WriteResult("add_edge", add_edge(nodes, edges, edge).ok)
        /\ UNCHANGED <<nodes, svars, gov>>

UpsertDecisionGraph ==
    \E decision_id \in GraphDecisionIds, decision \in GraphDecisions,
       governance \in GraphGovernances :
        LET r == upsert_decision_graph(nodes, edges, decision_id, decision, governance)
        IN /\ Len(r.edges) <= MaxEdges
           /\ nodes' = r.nodes
           /\ edges' = r.edges
           /\ ctx' = WriteResult("upsert_decision_graph", r.ok)
           /\ UNCHANGED <<svars, gov>>

Clear ==
    /\ nodes' = clear(nodes, edges).nodes
    /\ edges' = clear(nodes, edges).edges
    /\ ctx' = WriteResult("clear", TRUE)
    /\ UNCHANGED <<svars, gov>>

GetGovernanceContext ==
    \E decision_id \in GraphDecisionIds, depth \in 1..MaxDepth :
        /\ ctx' \in get_governance_context(nodes, edges, ActionId(decision_id), depth)
        /\ UNCHANGED <<nodes, edges, svars, gov>>

GraphNext ==
    \/ AddNode
    \/ AddEdge
    \/ UpsertDecisionGraph
    \/ Clear
    \/ GetGovernanceContext

GraphSpec == Init /\ [][GraphNext]_vars

\* ----------------------------------------------------------------- C19

ReturnedNodes ==
    {ctx.decision} \cup ctx.actors \cup ctx.policies \cup ctx.risks

\* C19: every edge returned by get_governance_context (depth >= 1, decision in
\* the graph) has both endpoints among the returned nodes: the decision node and
\* the actors, policies and risks lists.
C19_ContextEdgesClosed ==
    (ctx.kind = "context" /\ ctx.found) =>
        \A i \in 1..Len(ctx.edges) :
            /\ ctx.edges[i].from_node \in ReturnedNodes
            /\ ctx.edges[i].to_node \in ReturnedNodes

\* ----------------------------------------------------------------- C20

\* C20: after any sequence of add_node, add_edge, upsert_decision_graph and clear
\* calls, failed ones included, every stored edge has both endpoints in the node
\* map, and no node id is held twice (so at most one Action node per decision id).
C20_GraphWellFormed ==
    /\ \A i \in 1..Len(edges) :
          /\ edges[i].from_node \in NodeIds(nodes)
          /\ edges[i].to_node \in NodeIds(nodes)
    /\ \A i, j \in 1..Len(nodes) : nodes[i].id = nodes[j].id => i = j
    /\ \A decision_id \in GraphDecisionIds :
          Cardinality({i \in 1..Len(nodes) :
                         nodes[i].id = ActionId(decision_id)
                         /\ nodes[i].type = "Action"}) <= 1

\* an upsert that failed midway left its Action node and an owner edge behind,
\* beside the complete graph of another decision
C20_Witness ==
    /\ ActionId("d1") \in NodeIds(nodes)
    /\ ActionId("d2") \in NodeIds(nodes)
    /\ PolicyId("R1") \in NodeIds(nodes)
    /\ RiskId("d1", 0) \notin NodeIds(nodes)
    /\ RiskId("d2", 0) \in NodeIds(nodes)
    /\ Len(edges) >= 3

\* ----------------------------------------------------------------- C25

\* the place, in declared order, of the first triggered approval / review rule
\* that names approver a
FirstRuleNaming(a) ==
    CHOOSE j \in 1..Len(GovRules) :
        /\ GatedRule(j) /\ a \in NamedApprovers(j)
        /\ \A h \in 1..(j - 1) : ~(GatedRule(h) /\ a \in NamedApprovers(h))

\* C25: the chain step of an approver carries the rationale (the rule's
\* description), the source_rule_id and the rule_action of the first triggered
\* rule, in declared order, that names the approver; later rules naming the same
\* approver leave it as it is.
C25_FirstRuleFillsStep ==
    gov # NULL /\ gov.result # NULL =>
        \A k \in 1..Len(GovChain) :
            LET rule == GovRules[FirstRuleNaming(GovChain[k].approver_id)]
            IN /\ GovChain[k].rationale = rule.rule_id
               /\ GovChain[k].source_rule_id = rule.rule_id
               /\ GovChain[k].rule_action = rule.action

\* an approval rule and then a review rule name u1: the step is the approval's
C25_Witness ==
    /\ gov # NULL /\ gov.result # NULL
    /\ Len(GovRules) = 2 /\ GatedRule(1) /\ GatedRule(2)
    /\ GovRules[1].action = "require_approval" /\ GovRules[2].action = "require_review"
    /\ "u1" \in NamedApprovers(1) /\ "u1" \in NamedApprovers(2)
    /\ \E k \in 1..Len(GovChain) :
          /\ GovChain[k].approver_id = "u1"
          /\ GovChain[k].rule_action = "require_approval"
          /\ GovChain[k].source_rule_id = "R1"

\* ----------------------------------------------------------------- C24

IsTerminal(e) == e.event \in {"complete", "error"}

\* C24: on one SSE stream the step events carry strictly increasing numbers out
\* of {1, 2, 3} (so none twice), at most one terminal event (complete or error)
\* is emitted, and nothing is emitted after it.
C24_StreamShape ==
    \A d \in DecisionIds :
        LET es == events[d] IN
        /\ \A i \in 1..Len(es) :
              es[i].event = "step" => es[i].step \in {1, 2, 3}
        /\ \A i, j \in 1..Len(es) :
              (i < j /\ es[i].event = "step" /\ es[j].event = "step")
                  => es[i].step < es[j].step
        /\ Cardinality({i \in 1..Len(es) : IsTerminal(es[i])}) <= 1
        /\ \A i \in 1..Len(es) : IsTerminal(es[i]) => i = Len(es)
        /\ (\E i \in 1..Len(es) : IsTerminal(es[i])) => gen[d].pc = "done"

\* a closed stream that carried step events and then its terminal event, the
\* generator being finished
C24_Witness ==
    \E d \in DecisionIds :
        /\ gen[d].pc = "done"
        /\ Len(events[d]) >= 3
        /\ events[d][1] = StepEvent(1)
        /\ events[d][2] = StepEvent(2)
        /\ IsTerminal(events[d][Len(events[d])])

\* ----------------------------------------------------------------- C27

\* C27: a graph-store write that fails (add_node on an existing id, add_edge with
\* a missing endpoint, an upsert_decision_graph that raises at its first node or
\* part-way) leaves nodes and edges exactly as they were before the call.
C27_FailedWriteChangesNothing ==
    [][(ctx'.kind = "write" /\ ~ctx'.ok) => (nodes' = nodes /\ edges' = edges)]_vars

\* =====================================================================
\* run_pipeline, step 2b: every pipeline upserts its own decision once
\* =====================================================================

\* each pipeline has a decision id of its own (a fresh uuid)
PipelineIds == {"d1", "d2", "d3"}

\* gov_dict as evaluate_governance leaves it: steps only come from triggered rules
PipelineGovernances ==
    {g \in GraphGovernances : g.approval_chain > 0 => g.triggered_rules # <<>>}

\* the outcome of `await graph_repo.upsert_decision_graph(...)` in run_pipeline:
\* the DecisionGraph that becomes graph_payload, or the exception that is logged
UpsertResult(decision_id, governance, r) ==
    [kind |-> "upsert", decision_id |-> decision_id,
     triggered_rules |-> governance.triggered_rules, ok |-> r.ok,
     graph |-> IF r.ok THEN r.graph ELSE [nodes |-> <<>>, edges |-> <<>>]]

\* the call runs to its end without yielding to the event loop: add_node and
\* add_edge are coroutines that never suspend
PipelineUpsert ==
    \E decision_id \in PipelineIds, decision \in GraphDecisions,
       governance \in PipelineGovernances :
        LET r == upsert_decision_graph(nodes, edges, decision_id, decision, governance)
        IN /\ ActionId(decision_id) \notin NodeIds(nodes)
           /\ nodes' = r.nodes
           /\ edges' = r.edges
           /\ ctx' = UpsertResult(decision_id, governance, r)
           /\ UNCHANGED <<svars, gov>>

UpsertNext == PipelineUpsert

UpsertSpec == Init /\ [][UpsertNext]_vars

\* ----------------------------------------------------------------- C21

PolicyNodes(rule_id) ==
    {i \in 1..Len(nodes) : nodes[i].id = PolicyId(rule_id)}

GovernedBy(decision_id, rule_id) ==
    {i \in 1..Len(edges) : edges[i] = Edge(ActionId(decision_id), PolicyId(rule_id))}

\* C21: whenever a pipeline has upserted a decision that triggers rule R1, in any
\* order with the other pipelines, the upsert did not fail, the store holds
\* exactly one Policy node policy_R1 and the decision has its own GOVERNED_BY
\* edge to it.
C21_SharedPolicy ==
    (ctx.kind = "upsert" /\ ctx.triggered_rules = <<"R1">>) =>
        /\ ctx.ok
        /\ Cardinality(PolicyNodes("R1")) = 1
        /\ nodes[CHOOSE i \in PolicyNodes("R1") : TRUE].type = "Policy"
        /\ Cardinality(GovernedBy(ctx.decision_id, "R1")) = 1

\* ----------------------------------------------------------------- C29

\* C29: the DecisionGraph returned by upsert_decision_graph is self-contained:
\* every edge of its edges list has both endpoints in its nodes list, also when
\* the Policy node of a triggered rule was created by an earlier decision.
C29_ReturnedGraphClosed ==
    (ctx.kind = "upsert" /\ ctx.ok) =>
        \A i \in 1..Len(ctx.graph.edges) :
            /\ ctx.graph.edges[i].from_node \in NodeIds(ctx.graph.nodes)
            /\ ctx.graph.edges[i].to_node \in NodeIds(ctx.graph.nodes)

\* ----------------------------------------------------------------- C30

\* the console status that stands for a status of the decision pack
ConsoleStatusOf(governance_status) ==
    CASE governance_status = "blocked" -> "blocked"
      [] governance_status = "compliant" -> "compliant"
      [] governance_status = "needs_review" -> "review_required"

\* C30: the governance status of the console payload agrees with the
\* governance_status of the decision pack: blocked for blocked, compliant for
\* compliant, review_required for needs_review.
C30_ConsoleStatusAgrees ==
    (gov # NULL /\ gov.pack # NULL /\ gov.normalized # NULL) =>
        gov.normalized.status = ConsoleStatusOf(gov.pack.governance_status)

\* =====================================================================
\* several pipelines on one event loop
\* =====================================================================

ConcurrentIds == {"d1", "d2"}

\* the service after startup, with room for the decisions of ConcurrentIds
ConcurrentInit ==
    /\ store = [d \in {} |-> NULL]
    /\ ppc = [d \in ConcurrentIds |-> "none"]
    /\ running = Free
    /\ ext = [d \in ConcurrentIds |-> ExtIdle]
    /\ rsn = [d \in ConcurrentIds |-> RsnIdle]
    /\ graph_ok = [d \in ConcurrentIds |-> "none"]
    /\ stages_done = [d \in ConcurrentIds |-> 0]
    /\ gen = [d \in ConcurrentIds |-> GenIdle]
    /\ events = [d \in ConcurrentIds |-> <<>>]
    /\ disconnected = [d \in ConcurrentIds |-> FALSE]
    /\ last_get = [d \in ConcurrentIds |-> NULL]
    /\ GraphInit
    /\ gov = NULL

\* submissions, pipeline steps and executor returns of the decisions, in any order
ConcurrentNext ==
    /\ \E d \in ConcurrentIds :
          \/ \E use_o1_graph \in BOOLEAN : SubmitDecision(d, use_o1_graph)
          \/ PipelineStep(d)
          \/ ExecutorStep(d)
    /\ UNCHANGED <<gov, nodes, edges, ctx>>

ConcurrentSpec == ConcurrentInit /\ [][ConcurrentNext]_vars

\* ----------------------------------------------------------------- C28

\* C28: a step of run_pipeline for decision d leaves every other decision's
\* record (status, current_step, outputs, error) as it was, under any
\* interleaving of the pipelines.
C28_PipelineWritesOwnRecord ==
    [][\A d \in ConcurrentIds :
          PipelineStep(d) =>
              \A o \in DOMAIN store \ {d} :
                  o \in DOMAIN store' /\ store'[o] = store[o]]_vars

\* both pipelines are under way: one has finished while the other is mid-run
C28_Witness ==
    /\ DOMAIN store = ConcurrentIds
    /\ store["d1"].status = "complete"
    /\ store["d2"].status = "processing" /\ store["d2"].current_step = 2

\* ----------------------------------------------------------------- C26

\* C26: when a run used deep reasoning and the reasoner returned a non-empty
\* next_actions list, the recommended_next_actions of the stored decision pack
\* are the reasoner's.
C26_ReasonerActionsAdopted ==
    \A d \in DOMAIN store :
        (/\ store[d].decision_pack # NULL
         /\ store[d].use_o1_graph
         /\ store[d].reasoning.source = "o1"
         /\ store[d].reasoning.analysis_method = "o1-reasoning"
         /\ store[d].reasoning.next_actions # <<>>)
        => store[d].decision_pack.recommended_next_actions
               = store[d].reasoning.next_actions

\* ----------------------------------------------------------------- C23

PersonId(id) == [scope |-> "person", part |-> id, idx |-> 0]
KpiId(decision_id, idx) == [scope |-> decision_id, part |-> "kpi", idx |-> idx]
GoalId(decision_id, idx) == [scope |-> decision_id, part |-> "goal", idx |-> idx]
StrategicGoalId(goal_id) == [scope |-> "strategic_goal", part |-> goal_id, idx |-> 0]
RiskToleranceId == [scope |-> "risk_tolerance", part |-> "", idx |-> 0]

\* _add_node: appended unless the id is in seen_ids
SgAddNode(sg, id, type) ==
    IF id \in NodeIds(sg.nodes) THEN sg
    ELSE [sg EXCEPT !.nodes = Append(@, Node(id, type))]

\* _add_edge: always appended
SgAddEdge(sg, source, target) ==
    [sg EXCEPT !.edges = Append(@, [source |-> source, target |-> target])]

SgMatched(sg, id) == [sg EXCEPT !.matched = @ \cup {id}]

PersonnelIds(personnel) == {personnel[j].id : j \in 1..Len(personnel)}

\* personnel_by_id.get(id, {}).get("reports_to"); "" when there is none
ReportsTo(personnel, id) ==
    IF id \in PersonnelIds(personnel)
    THEN personnel[CHOOSE j \in 1..Len(personnel) : personnel[j].id = id].reports_to
    ELSE ""

\* "Walk reporting chain upward": `for _ in range(2)`, with hops rounds left
RECURSIVE ReportingChain(_, _, _, _)
ReportingChain(sg, personnel, current_id, hops) ==
    LET reports_to == ReportsTo(personnel, current_id) IN
    IF hops = 0 \/ reports_to = "" \/ reports_to \notin PersonnelIds(personnel) THEN sg
    ELSE ReportingChain(
            SgMatched(SgAddEdge(SgAddNode(sg, PersonId(reports_to), "Actor"),
                                PersonId(current_id), PersonId(reports_to)),
                      reports_to),
            personnel, reports_to, hops - 1)

\* `for person in personnel` for one stated owner, from person j on; the name
\* test is given as the set owner.matches of the person ids it accepts
RECURSIVE MatchPersons(_, _, _, _, _)
MatchPersons(sg, personnel, owner, owner_node_id, j) ==
    IF j > Len(personnel) THEN sg
    ELSE LET p_id == personnel[j].id IN
         IF p_id \in owner.matches
         THEN MatchPersons(
                ReportingChain(
                    SgMatched(SgAddEdge(SgAddNode(sg, PersonId(p_id), "Actor"),
                                        owner_node_id, PersonId(p_id)),
                              p_id),
                    personnel, p_id, 2),
                personnel, owner, owner_node_id, j + 1)
         ELSE MatchPersons(sg, personnel, owner, owner_node_id, j + 1)

\* `for i, owner in enumerate(explicit_owners)`, from owner i on (1-based here)
RECURSIVE StatedOwners(_, _, _, _, _)
StatedOwners(sg, decision_id, owners, personnel, i) ==
    IF i > Len(owners) THEN sg
    ELSE LET owner_node_id == OwnerId(decision_id, i - 1) IN
         StatedOwners(
            MatchPersons(
                SgAddEdge(SgAddNode(sg, owner_node_id, "Actor"),
                          ActionId(decision_id), owner_node_id),
                personnel, owners[i], owner_node_id, 1),
            decision_id, owners, personnel, i + 1)

\* no owners stated: every person becomes a candidate node
RECURSIVE CandidateNodes(_, _, _)
CandidateNodes(sg, personnel, j) ==
    IF j > Len(personnel) THEN sg
    ELSE CandidateNodes(
            SgMatched(SgAddNode(sg, PersonId(personnel[j].id), "Actor"), personnel[j].id),
            personnel, j + 1)

\* and the reporting edges between the candidates
RECURSIVE CandidateEdges(_, _, _)
CandidateEdges(sg, personnel, j) ==
    IF j > Len(personnel) THEN sg
    ELSE LET reports_to == personnel[j].reports_to IN
         CandidateEdges(
            IF reports_to # "" /\ reports_to \in PersonnelIds(personnel)
            THEN SgAddEdge(sg, PersonId(personnel[j].id), PersonId(reports_to))
            ELSE sg,
            personnel, j + 1)

\* sections 3, 4 and 6: one node and one edge from the decision per list entry
RECURSIVE ListNodes(_, _, _, _, _)
ListNodes(sg, decision_id, n, kind, i) ==
    IF i >= n THEN sg
    ELSE LET id == CASE kind = "kpi" -> KpiId(decision_id, i)
                     [] kind = "goal" -> GoalId(decision_id, i)
                     [] kind = "risk" -> RiskId(decision_id, i)
             type == CASE kind = "kpi" -> "Resource"
                       [] kind = "goal" -> "Action"
                       [] kind = "risk" -> "Risk"
         IN ListNodes(SgAddEdge(SgAddNode(sg, id, type), ActionId(decision_id), id),
                      decision_id, n, kind, i + 1)

\* section 5: a strategic goal is taken in when it shares a KPI keyword or a
\* goal word with the decision (given as sg_goal.overlap) or its owner is among
\* the matched persons; its owner is linked when the owner is in the personnel
RECURSIVE StrategicGoals(_, _, _, _, _)
StrategicGoals(sg, decision_id, goals, personnel, k) ==
    IF k > Len(goals) THEN sg
    ELSE LET sg_goal == goals[k]
             sg_id == StrategicGoalId(sg_goal.goal_id)
             owner_overlap == sg_goal.owner_id \in sg.matched
             sg1 == SgAddEdge(SgAddNode(sg, sg_id, "Action"), ActionId(decision_id), sg_id)
             sg2 == IF sg_goal.owner_id # "" /\ sg_goal.owner_id \in PersonnelIds(personnel)
                    THEN SgAddEdge(SgAddNode(sg1, PersonId(sg_goal.owner_id), "Actor"),
                                   sg_id, PersonId(sg_goal.owner_id))
                    ELSE sg1
         IN StrategicGoals(IF sg_goal.overlap \/ owner_overlap THEN sg2 ELSE sg,
                           decision_id, goals, personnel, k + 1)

\* _merge_graph_context: the actors, policies (with an edge from the decision)
\* and risks of the context become nodes ...
RECURSIVE MergeNodes(_, _, _, _)
MergeNodes(sg, decision_id, ids, type) ==
    IF ids = {} THEN sg
    ELSE LET id == CHOOSE x \in ids : TRUE
             sg1 == SgAddNode(sg, id, type)
         IN MergeNodes(IF type = "Policy" THEN SgAddEdge(sg1, ActionId(decision_id), id)
                       ELSE sg1,
                       decision_id, ids \ {id}, type)

\* ... and every edge of the context is appended as it is
RECURSIVE MergeEdges(_, _, _)
MergeEdges(sg, context_edges, i) ==
    IF i > Len(context_edges) THEN sg
    ELSE MergeEdges(SgAddEdge(sg, context_edges[i].from_node, context_edges[i].to_node),
                    context_edges, i + 1)

merge_graph_context(sg, graph_context, decision_id) ==
    MergeEdges(
        MergeNodes(
            MergeNodes(
                MergeNodes(sg, decision_id, graph_context.actors, "Actor"),
                decision_id, graph_context.policies, "Policy"),
            decision_id, graph_context.risks, "Risk"),
        graph_context.edges, 1)

\* _extract_mock_subgraph; graph_context is the dict of get_governance_context
extract_mock_subgraph(decision_id, decision_data, company_data, graph_context) ==
    LET personnel == company_data.personnel
        sg1 == SgAddNode([nodes |-> <<>>, edges |-> <<>>, matched |-> {}],
                         ActionId(decision_id), "Action")
        sg2 == IF decision_data.owners # <<>>
               THEN StatedOwners(sg1, decision_id, decision_data.owners, personnel, 1)
               ELSE CandidateEdges(CandidateNodes(sg1, personnel, 1), personnel, 1)
        sg3 == ListNodes(sg2, decision_id, decision_data.kpis, "kpi", 0)
        sg4 == ListNodes(sg3, decision_id, decision_data.goals, "goal", 0)
        sg5 == StrategicGoals(sg4, decision_id, company_data.strategic_goals, personnel, 1)
        sg6 == ListNodes(sg5, decision_id, decision_data.risks, "risk", 0)
        sg7 == IF company_data.risk_tolerance
               THEN SgAddEdge(SgAddNode(sg6, RiskToleranceId, "Policy"),
                              ActionId(decision_id), RiskToleranceId)
               ELSE sg6
        sg8 == merge_graph_context(sg7, graph_context, decision_id)
    IN [kind |-> "subgraph", nodes |-> sg8.nodes, edges |-> sg8.edges]

\* ---- inputs ----
SubgraphDecisions ==
    {[owners |-> owners, kpis |-> n, goals |-> n, risks |-> n] :
        owners \in {<<>>, <<[matches |-> {}]>>, <<[matches |-> {"u4"}]>>},
        n \in 0..1}

SubgraphCompanies ==
    {[personnel |-> personnel, strategic_goals |-> goals, risk_tolerance |-> goals # <<>>] :
        personnel \in Personnels,
        goals \in {<<>>, <<[goal_id |-> "G1", owner_id |-> "u1", overlap |-> FALSE]>>,
                   <<[goal_id |-> "G2", owner_id |-> "u9", overlap |-> TRUE]>>}}

\* ---- the deep reasoner's steps on the graph store ----

\* analyze_decision_graph_with_o1, step 1: get_governance_context(decision_id, depth=2)
ReasonerContext ==
    \E decision_id \in GraphDecisionIds :
        /\ ctx' \in get_governance_context(nodes, edges, ActionId(decision_id), 2)
        /\ gov' = NULL
        /\ UNCHANGED <<nodes, edges, svars>>

\* _reason_about_graph_with_o1: the subgraph handed to the reasoner
ExtractMockSubgraph ==
    \E decision_data \in SubgraphDecisions, company_data \in SubgraphCompanies :
        /\ ctx.kind = "context"
        /\ gov' = extract_mock_subgraph(ctx.decision.scope, decision_data, company_data, ctx)
        /\ UNCHANGED <<nodes, edges, ctx, svars>>

\* the pipelines' upserts that fill the store
ReasonerUpsert ==
    \E decision_id \in GraphDecisionIds, decision \in GraphDecisions,
       governance \in PipelineGovernances :
        LET r == upsert_decision_graph(nodes, edges, decision_id, decision, governance)
        IN /\ ActionId(decision_id) \notin NodeIds(nodes)
           /\ nodes' = r.nodes
           /\ edges' = r.edges
           /\ ctx' = UpsertResult(decision_id, governance, r)
           /\ gov' = NULL
           /\ UNCHANGED svars

ReasonerNext ==
    \/ ReasonerUpsert
    \/ ReasonerContext
    \/ ExtractMockSubgraph

ReasonerSpec == Init /\ [][ReasonerNext]_vars

\* ----------------------------------------------------------------- C22

\* C22: every edge of the subgraph produced for the reasoner has its source and
\* its target in the subgraph's node list, the edges merged in from the graph
\* store included.
C22_SubgraphClosed ==
    (gov # NULL /\ gov.kind = "subgraph") =>
        \A i \in 1..Len(gov.edges) :
            /\ gov.edges[i].source \in NodeIds(gov.nodes)
            /\ gov.edges[i].target \in NodeIds(gov.nodes)

====
